---- MODULE Spec2Model ----
(***************************************************************************)
(* Ingest worker of the commerce analytics dashboard:                      *)
(*   - the job dispatcher (job-dispatcher.ts: claimNextRun, runSingleJob,   *)
(*     completeRunSuccess, completeRunError, startJobDispatcher),           *)
(*   - the scheduler endpoint (enqueueMetaFreshRuns),                       *)
(*   - the commerce job handlers and the warehouse writer (jobs/shopify.ts, *)
(*     jobs/daily-summary.ts).                                              *)
(* The database is PostgreSQL at READ COMMITTED: a statement sees what is   *)
(* committed when it starts plus its own transaction's writes; row locks    *)
(* are held until the transaction ends.                                     *)
(*                                                                         *)
(* Specifications:                                                         *)
(*   Spec       the dispatcher processes, statement by statement, with the  *)
(*              scheduler and the connect flow inserting runs;              *)
(*   SpecSched  the scheduler endpoint with overlapping requests and a      *)
(*              clock, the dispatcher run by run.                           *)
(***************************************************************************)
EXTENDS Integers, Sequences, FiniteSets, Bags, TLC

(***************************************************************************)
(* Bounds of the model.                                                    *)
(***************************************************************************)
NumProcs == 2
NumSched == 2
MaxRuns == 2
MaxTicks == 2

NULL == "null"
\* No clock reading (a created_at that is NULL, a call that was never made).
NoTime == 0 - 1
\* started_at and finished_at are written and never read by the worker: the
\* model keeps whether they are NULL or hold the NOW() of the statement.
NOW == "now()"

Procs == 1..NumProcs
Scheds == 1..NumSched

(***************************************************************************)
(* Scheduler configuration (route.ts of the scheduler endpoint).           *)
(***************************************************************************)
DEFAULT_INTERVAL_MINUTES == 60
MIN_INTERVAL_MINUTES == 5

\* The value of META_FRESH_SCHED_MINUTES in the modelled deployment: the
\* smallest interval the endpoint accepts. Number.parseInt gives NaN
\* (finite = FALSE) when the setting is absent or not a number.
intervalEnv == [finite |-> TRUE, value |-> MIN_INTERVAL_MINUTES]

Max2(a, b) == IF a >= b THEN a ELSE b
Min2(a, b) == IF a <= b THEN a ELSE b

META_FRESH_INTERVAL_MINUTES ==
    IF intervalEnv.finite
    THEN Max2(MIN_INTERVAL_MINUTES, intervalEnv.value)
    ELSE DEFAULT_INTERVAL_MINUTES

(***************************************************************************)
(* The integrations table, as the scheduler reads it.                       *)
(***************************************************************************)
IntegrationIds == {1, 2, 3}

\* The integrations table the model starts from: integration 1 is a connected
\* ads integration, integration 2 an ads integration in error, integration 3 a
\* connected commerce integration.
InitialIntegrations ==
    [i \in IntegrationIds |->
        CASE i = 1 -> [type |-> "meta", status |-> "connected"]
          [] i = 2 -> [type |-> "meta", status |-> "error"]
          [] OTHER -> [type |-> "shopify", status |-> "connected"]]

KnownJobTypes ==
    {"shopify_7d_fill", "shopify_fresh", "shopify_sessions", "meta_7d_fill", "meta_fresh"}

VARIABLES
    integrations, \* the integrations table: integration_id -> [type, status]
    now,          \* the database clock, in minutes
    sync_runs,    \* the sync_runs table: a sequence of rows, sync_run_id = index
    pc,           \* pc[p]: where dispatcher process p is in its loop
    run,          \* run[p]: the local variable `run` of the loop (0 = null)
    txRow,        \* txRow[p]: the row p's open claim transaction has locked (0 = none)
    didCommit,    \* history: the claim transaction of p's current iteration committed
    handlerRuns,  \* history: handlerRuns[r] = how many handlers were started for run r
    sched,        \* sched[s]: the statement of scheduler request s
    calls,        \* history: the last two completed scheduler calls
    source,       \* the shop's orders: order id -> [exists, updatedAt, gross, refund]
    shopClock,    \* the instant of the shop's last write
    db,           \* the committed warehouse tables and the cursor
    job,          \* job[p]: the handler process p is running
    tx,           \* tx[p]: the warehouse transaction of job[p]
    summaryUnique,\* the schema: daily_summary has a unique key on (account_id, date)
    lastFill,     \* history: the last commit was a window fill of these orders
    isDbHealthy,  \* isDbHealthy[p]: the flag of worker process p's health server
    health,       \* health[p]: the last answer of p's health server
    result,       \* result[p]: what the handler p called returned or threw
    cron,         \* the scheduler endpoint's settings and the last request it answered
    created,      \* created[o]: the date on which order o of the shop was created
    throttle,     \* the throttle telemetry of a GraphQL answer and the delay computed
    poll,         \* JOB_POLL_INTERVAL_MS and the interval the dispatcher sleeps
    paging,       \* a paginated order fetch: the server's pages and the client's loop
    etl_runs,     \* the etl_runs table of the legacy Worker class: id -> [status, ...]
    worker        \* worker[p]: where legacy Worker process p is in processNextJob

warehouseVars == << source, shopClock, db, job, tx, summaryUnique, lastFill >>

workerVars == << isDbHealthy, health, result, cron >>

clientVars == << created, throttle, poll, paging, etl_runs, worker >>

vars == << integrations, now, sync_runs, pc, run, txRow, didCommit, handlerRuns,
           sched, calls, warehouseVars, workerVars, clientVars >>

RunIds == 1..Len(sync_runs)

\* A clock reading: instant k of the modelled timeline, in minutes. The
\* instants are 0, N, N+1, ... for N the scheduler's interval, so that a row
\* created at 0 is inside the dedup window at N and outside it at N+1.
Minutes(k) == IF k = 0 THEN 0 ELSE META_FRESH_INTERVAL_MINUTES + k - 1

(***************************************************************************)
(* Dispatcher: claimNextRun.                                               *)
(***************************************************************************)

\* Claimable, had the query not looked at the rate limit.
Claimable_ignoresRateLimit(r) == sync_runs[r].status = "queued"

\* WHERE status = 'queued'
\*   AND (rate_limited IS DISTINCT FROM TRUE OR rate_limit_reset_at <= NOW())
Claimable(r) ==
    /\ sync_runs[r].status = "queued"
    /\ \/ sync_runs[r].rate_limited # "true"
       \/ /\ sync_runs[r].rate_limit_reset_at # NoTime
          /\ sync_runs[r].rate_limit_reset_at <= now

\* A row lock taken by FOR UPDATE is held until the transaction ends.
Locked(r) == \E q \in Procs : txRow[q] = r

\* pool.connect(); BEGIN; SELECT ... LIMIT 1 FOR UPDATE SKIP LOCKED.
\* No ORDER BY: any claimable, unlocked row may be the one returned.
claimSelect(p) ==
    /\ pc[p] = "loop"
    /\ didCommit' = [didCommit EXCEPT ![p] = FALSE]
    /\ \/ \E r \in RunIds :
            /\ Claimable(r) /\ ~Locked(r)
            /\ txRow' = [txRow EXCEPT ![p] = r]
            /\ pc' = [pc EXCEPT ![p] = "selected"]
       \/ /\ ~ \E r \in RunIds : Claimable(r) /\ ~Locked(r)
          \* rowCount = 0: return null; COMMIT; sleep(pollIntervalMs)
          /\ pc' = [pc EXCEPT ![p] = "sleep"]
          /\ UNCHANGED txRow
    /\ UNCHANGED << clientVars, workerVars, integrations, now, sync_runs, run, handlerRuns, sched, calls,
                    warehouseVars >>

\* UPDATE sync_runs SET status = 'running' ... WHERE sync_run_id = $1; return run.
\* The write stays private to the transaction; `run` is assigned on return.
claimUpdate(p) ==
    /\ pc[p] = "selected"
    /\ run' = [run EXCEPT ![p] = txRow[p]]
    /\ pc' = [pc EXCEPT ![p] = "updated"]
    /\ UNCHANGED << clientVars, workerVars, integrations, now, sync_runs, txRow, didCommit, handlerRuns,
                    sched, calls,
                    warehouseVars >>

\* A string of the error path is its length, and whether it ends with the "…"
\* that truncateErrorMessage appends; NullMessage is the SQL NULL.
NullMessage == [null |-> TRUE, len |-> 0, ellipsis |-> FALSE]
Message(len) == [null |-> FALSE, len |-> len, ellipsis |-> FALSE]

\* SET status = 'running', started_at = NOW(), error_code = NULL, error_message = NULL
MarkRunning(row) ==
    [row EXCEPT !.status = "running", !.started_at = NOW,
                !.error_code = NULL, !.error_message = NullMessage]

\* COMMIT: the update becomes visible and the row lock is released.
claimCommit(p) ==
    /\ pc[p] = "updated"
    /\ sync_runs' = [sync_runs EXCEPT ![txRow[p]] = MarkRunning(@)]
    /\ didCommit' = [didCommit EXCEPT ![p] = TRUE]
    /\ txRow' = [txRow EXCEPT ![p] = 0]
    /\ pc' = [pc EXCEPT ![p] = "claimed"]
    /\ UNCHANGED << clientVars, workerVars, integrations, now, run, handlerRuns, sched, calls,
                    warehouseVars >>

\* After the try/catch/finally: if (!run) { sleep; continue; } runSingleJob(run).
AfterClaim(p) == IF run[p] = 0 THEN "sleep" ELSE "claimed"

\* A statement of the claim transaction throws (the UPDATE when pc = "selected",
\* the COMMIT when pc = "updated"): catch -> ROLLBACK, finally -> release.
\* `run` keeps whatever claimNextRun had already returned.
claimFail(p) ==
    /\ pc[p] \in {"selected", "updated"}
    /\ txRow' = [txRow EXCEPT ![p] = 0]
    /\ pc' = [pc EXCEPT ![p] = AfterClaim(p)]
    /\ UNCHANGED << clientVars, workerVars, integrations, now, sync_runs, run, didCommit, handlerRuns,
                    sched, calls,
                    warehouseVars >>

\* sleep(pollIntervalMs); continue
wake(p) ==
    /\ pc[p] = "sleep"
    /\ pc' = [pc EXCEPT ![p] = "loop"]
    /\ UNCHANGED << clientVars, workerVars, integrations, now, sync_runs, run, txRow, didCommit, handlerRuns,
                    sched, calls,
                    warehouseVars >>

(***************************************************************************)
(* Dispatcher: runSingleJob, completeRunSuccess, completeRunError.          *)
(***************************************************************************)

isKnownJobType(jobType) == jobType \in KnownJobTypes

MAX_LENGTH == 1000

\* message.length <= MAX_LENGTH ? message : `${message.slice(0, MAX_LENGTH)}…`
truncateErrorMessage(message) ==
    IF message.len <= MAX_LENGTH
    THEN message
    ELSE [null |-> FALSE, len |-> Min2(message.len, MAX_LENGTH) + 1, ellipsis |-> TRUE]

\* A thrown value: an Error with its message and its name ("Error"), or any
\* other value with the string String() makes of it.
JsError(messageLen) ==
    [isError |-> TRUE, message |-> Message(messageLen), name |-> Message(5),
     text |-> Message(0)]

\* error.message || error.name for an Error, String(error) for another value
errorText(error) ==
    IF error.isError
    THEN IF error.message.len > 0 THEN error.message ELSE error.name
    ELSE error.text

\* new Error(`Unknown job type: ${run.job_type}`)
UnknownJobTypeError == JsError(25)

\* An error of a handler whose message is short (a failed request to the
\* source, a failed statement).
HandlerError == JsError(40)

\* The errors a handler may throw: with an empty message, with a message of
\* MAX_LENGTH characters and of one more, and a thrown value that is no Error.
Errors ==
    { JsError(0), JsError(MAX_LENGTH), JsError(MAX_LENGTH + 1),
      [isError |-> FALSE, message |-> Message(0), name |-> Message(0),
       text |-> Message(MAX_LENGTH + 500)] }

\* UPDATE sync_runs SET status = 'success', finished_at = NOW(), stats = $2
\* WHERE sync_run_id = $1, with $2 = stats ? JSON.stringify(stats) : "{}"
completeRunSuccess(row, stats) ==
    [row EXCEPT !.status = "success", !.finished_at = NOW,
                !.stats = IF stats = "undefined" THEN "{}" ELSE stats]

\* UPDATE sync_runs SET status = 'error', finished_at = NOW(),
\*   error_code = COALESCE(error_code, 'worker_error'), error_message = $2
\* WHERE sync_run_id = $1, with $2 = truncateErrorMessage(...) of the error
completeRunError(row, error) ==
    [row EXCEPT !.status = "error", !.finished_at = NOW,
                !.error_code = IF @ = NULL THEN "worker_error" ELSE @,
                !.error_message = truncateErrorMessage(errorText(error))]

\* runSingleJob up to the call of the handler: an unknown job type is ended
\* at once with completeRunError, a known one starts its handler.
runSingleJob(p) ==
    /\ pc[p] = "claimed"
    /\ IF isKnownJobType(sync_runs[run[p]].job_type)
       THEN /\ pc' = [pc EXCEPT ![p] = "handler"]
            /\ handlerRuns' = [handlerRuns EXCEPT ![run[p]] = @ + 1]
            /\ UNCHANGED << clientVars, sync_runs, run >>
       ELSE /\ ~Locked(run[p])
            /\ sync_runs' = [sync_runs EXCEPT ![run[p]] =
                                completeRunError(@, UnknownJobTypeError)]
            /\ pc' = [pc EXCEPT ![p] = "loop"]
            /\ run' = [run EXCEPT ![p] = 0]
            /\ UNCHANGED handlerRuns
    /\ UNCHANGED << clientVars, workerVars, integrations, now, txRow, didCommit, sched, calls,
                    warehouseVars >>

\* The handler returned: completeRunSuccess(pool, run.sync_run_id, result.stats).
\* The UPDATE waits while another transaction holds the row's lock.
handlerReturn(p) ==
    /\ pc[p] = "handler"
    /\ ~Locked(run[p])
    /\ sync_runs' = [sync_runs EXCEPT ![run[p]] = completeRunSuccess(@, "stats")]
    /\ pc' = [pc EXCEPT ![p] = "loop"]
    /\ run' = [run EXCEPT ![p] = 0]
    /\ UNCHANGED << clientVars, workerVars, integrations, now, txRow, didCommit, handlerRuns, sched, calls,
                    warehouseVars >>

\* The handler threw: completeRunError(pool, run.sync_run_id, error).
handlerRaise(p) ==
    /\ pc[p] = "handler"
    /\ ~Locked(run[p])
    /\ \E error \in Errors :
          sync_runs' = [sync_runs EXCEPT ![run[p]] = completeRunError(@, error)]
    /\ pc' = [pc EXCEPT ![p] = "loop"]
    /\ run' = [run EXCEPT ![p] = 0]
    /\ UNCHANGED << clientVars, workerVars, integrations, now, txRow, didCommit, handlerRuns, sched, calls,
                    warehouseVars >>

(***************************************************************************)
(* Inserts into sync_runs.                                                 *)
(***************************************************************************)

\* INSERT INTO sync_runs (integration_id, job_type, status, trigger); the other
\* columns take their defaults (created_at = NOW()).
NewRun(integrationId, jobType, trigger, at) ==
    [integration_id |-> integrationId, job_type |-> jobType, status |-> "queued",
     trigger |-> trigger, created_at |-> at, started_at |-> NULL,
     finished_at |-> NULL, rate_limited |-> NULL, rate_limit_reset_at |-> NoTime,
     error_code |-> NULL, error_message |-> NullMessage, stats |-> NULL]

\* Rows that scheduler statements in flight are about to insert.
RECURSIVE SumPicks(_)
SumPicks(S) ==
    IF S = {} THEN 0
    ELSE LET s == CHOOSE x \in S : TRUE
         IN Cardinality(sched[s].picks) + SumPicks(S \ {s})

Pending == SumPicks(Scheds)

\* enqueueMetaInitialFill(integrationId, trigger): the connect flow queues a
\* window fill for the ads integration it has connected.
enqueueMetaInitialFill(i) ==
    /\ integrations[i].type = "meta" /\ integrations[i].status = "connected"
    /\ Len(sync_runs) + Pending < MaxRuns
    /\ sync_runs' = Append(sync_runs, NewRun(i, "meta_7d_fill", "user_click", now))
    /\ UNCHANGED << clientVars, workerVars, integrations, now, pc, run, txRow, didCommit, handlerRuns,
                    sched, calls,
                    warehouseVars >>

(***************************************************************************)
(* Scheduler endpoint: enqueueMetaFreshRuns. One SQL statement: it reads    *)
(* what is committed when it starts and its rows are committed when it      *)
(* ends; the statements of two requests may overlap.                       *)
(***************************************************************************)

\* candidate: WHERE type = 'meta' AND status IN ('connected', 'active')
candidate ==
    { i \in IntegrationIds :
        integrations[i].type = "meta" /\ integrations[i].status \in {"connected", "active"} }

\* InFlightFresh, had the subquery looked at queued runs only.
InFlightFresh_queuedOnly(i, at) ==
    \E r \in RunIds :
        /\ sync_runs[r].integration_id = i
        /\ sync_runs[r].job_type = "meta_fresh"
        /\ sync_runs[r].status = "queued"
        /\ sync_runs[r].created_at >= at - META_FRESH_INTERVAL_MINUTES

\* The NOT EXISTS subquery: a meta_fresh run of the integration that is queued
\* or running and was created within the last N minutes.
InFlightFresh(i, at) ==
    \E r \in RunIds :
        /\ sync_runs[r].integration_id = i
        /\ sync_runs[r].job_type = "meta_fresh"
        /\ sync_runs[r].status \in {"queued", "running"}
        /\ sync_runs[r].created_at >= at - META_FRESH_INTERVAL_MINUTES

\* The integrations the statement inserts a run for.
ToInsert(at) == { i \in candidate : ~InFlightFresh(i, at) }

\* A meta_fresh run of some integration is queued or running.
AnyFreshInFlight ==
    \E r \in RunIds :
        sync_runs[r].job_type = "meta_fresh" /\ sync_runs[r].status \in {"queued", "running"}

Idle == [pc |-> "idle", picks |-> {}, clean |-> FALSE, seq |-> FALSE]

\* The record kept of a completed call: when its statement ran, the rows it
\* inserted, whether no fresh run was queued or running when it started
\* (clean), whether no other request's statement overlapped it (seq), and
\* whether a run has reached a terminal status since it completed (term).
NoCall == [at |-> NoTime, rows |-> {}, clean |-> FALSE, seq |-> FALSE, term |-> FALSE]

\* INSERT ... SELECT c.integration_id, 'meta_fresh', 'queued', 'auto' FROM candidate c
RECURSIVE AppendRuns(_, _, _)
AppendRuns(rows, S, at) ==
    IF S = {} THEN rows
    ELSE LET i == CHOOSE x \in S : \A y \in S : x <= y
         IN AppendRuns(Append(rows, NewRun(i, "meta_fresh", "auto", at)), S \ {i}, at)

\* The statement starts: its snapshot decides what it inserts.
schedStart(s) ==
    /\ sched[s].pc = "idle"
    /\ Len(sync_runs) + Pending + Cardinality(ToInsert(now)) <= MaxRuns
    /\ sched' = [t \in Scheds |->
                   IF t = s
                   THEN [pc |-> "stmt", picks |-> ToInsert(now),
                         clean |-> ~AnyFreshInFlight,
                         seq |-> \A u \in Scheds : sched[u].pc = "idle"]
                   ELSE IF sched[t].pc = "stmt" THEN [sched[t] EXCEPT !.seq = FALSE]
                   ELSE sched[t]]
    /\ UNCHANGED << clientVars, workerVars, integrations, now, sync_runs, pc, run, txRow, didCommit,
                    handlerRuns, calls,
                    warehouseVars >>

\* The statement ends: the inserted rows are committed and the request is
\* answered with their count.
schedFinish(s) ==
    /\ sched[s].pc = "stmt"
    /\ sync_runs' = AppendRuns(sync_runs, sched[s].picks, now)
    /\ sched' = [sched EXCEPT ![s] = Idle]
    /\ calls' = [first |-> calls.second,
                 second |-> [at |-> now,
                             rows |-> (Len(sync_runs) + 1)..Len(sync_runs'),
                             clean |-> sched[s].clean, seq |-> sched[s].seq,
                             term |-> FALSE]]
    /\ UNCHANGED << clientVars, workerVars, integrations, now, pc, run, txRow, didCommit, handlerRuns,
                    warehouseVars >>

\* A scheduler request served alone, from start to end (Spec).
enqueueMetaFreshRuns ==
    /\ Len(sync_runs) + Cardinality(ToInsert(now)) <= MaxRuns
    /\ ToInsert(now) # {}
    /\ sync_runs' = AppendRuns(sync_runs, ToInsert(now), now)
    /\ UNCHANGED << clientVars, workerVars, integrations, now, pc, run, txRow, didCommit, handlerRuns,
                    sched, calls,
                    warehouseVars >>

(***************************************************************************)
(* The dispatcher seen from the scheduler (SpecSched): one step per claim   *)
(* transaction and one per run completion.                                  *)
(***************************************************************************)

\* A dispatcher's claim transaction, from BEGIN to COMMIT.
startJobDispatcher_claim ==
    /\ \E r \in RunIds :
          /\ Claimable(r)
          /\ sync_runs' = [sync_runs EXCEPT ![r] = MarkRunning(@)]
    /\ UNCHANGED << clientVars, workerVars, integrations, now, pc, run, txRow, didCommit, handlerRuns,
                    sched, calls,
                    warehouseVars >>

\* runSingleJob for a claimed run: the handler returns or throws and the run
\* is ended.
runSingleJob_end ==
    /\ \E r \in RunIds :
          /\ sync_runs[r].status = "running"
          /\ \/ sync_runs' = [sync_runs EXCEPT ![r] = completeRunSuccess(@, "stats")]
             \/ sync_runs' = [sync_runs EXCEPT ![r] = completeRunError(@, HandlerError)]
    /\ calls' = [calls EXCEPT !.second.term = TRUE]
    /\ UNCHANGED << clientVars, workerVars, integrations, now, pc, run, txRow, didCommit, handlerRuns, sched,
                    warehouseVars >>

\* Time passes (a statement takes less than a step of the clock).
Tick ==
    /\ \A s \in Scheds : sched[s].pc = "idle"
    /\ \E k \in 0..(MaxTicks - 1) :
          /\ now = Minutes(k)
          /\ now' = Minutes(k + 1)
    /\ UNCHANGED << clientVars, workerVars, integrations, sync_runs, pc, run, txRow, didCommit, handlerRuns,
                    sched, calls,
                    warehouseVars >>

(***************************************************************************)
(* Timestamps are strings in the code and are compared as strings. The      *)
(* source writes "YYYY-MM-DDTHH:MM:SSZ" (raw); Date.toISOString() writes     *)
(* "YYYY-MM-DDTHH:MM:SS.000Z" (iso). Two strings of different seconds        *)
(* compare as their instants do; of two strings of the same second the raw   *)
(* one is the greater ("Z" > ".").                                           *)
(***************************************************************************)
NullTs == [t |-> NoTime, fmt |-> "null"]
RawTs(k) == [t |-> k, fmt |-> "raw"]
IsoTs(k) == [t |-> k, fmt |-> "iso"]

\* valueA > valueB on strings
StrGreater(a, b) == a.t > b.t \/ (a.t = b.t /\ a.fmt = "raw" /\ b.fmt = "iso")

\* new Date(value).toISOString(), null for a missing value
isoStringOrNull(value) == IF value = NullTs THEN NullTs ELSE IsoTs(value.t)

maxIsoString(valueA, valueB) ==
    IF valueA = NullTs THEN valueB
    ELSE IF valueB = NullTs THEN valueA
    ELSE IF StrGreater(valueA, valueB) THEN valueA ELSE valueB

\* value.slice(0, 10) of a createdAt string
toDateOnly(value) == value.date

(***************************************************************************)
(* Numbers of the warehouse: a NUMERIC column holds a quotient or NULL.     *)
(***************************************************************************)
NullNum == [null |-> TRUE, num |-> 0, den |-> 1]
Num(n) == [null |-> FALSE, num |-> n, den |-> 1]
Ratio(n, d) == [null |-> FALSE, num |-> n, den |-> d]

RECURSIVE Total(_)
Total(f) ==
    IF DOMAIN f = {} THEN 0
    ELSE LET x == CHOOSE y \in DOMAIN f : TRUE
         IN f[x] + Total([y \in DOMAIN f \ {x} |-> f[y]])

\* The rows of bag B that are in set S.
Rows(B, S) == [r \in DOMAIN B \cap S |-> B[r]]

(***************************************************************************)
(* The commerce source: the orders of the shop. An order is created on the  *)
(* date its id fixes; every write of the shop stamps it with a later         *)
(* updatedAt and sets its amounts.                                           *)
(***************************************************************************)
NumOrders == 2
MaxClock == 2
MaxJobs == 2

OrderIds == 1..NumOrders
Dates == {1, 2}
Amounts == { [gross |-> 20, refund |-> 0], [gross |-> 20, refund |-> 30] }
Spends == {0, 5}

\* The dates of the orders when each date has one order.
OneOrderPerDate == [o \in OrderIds |-> IF o % 2 = 1 THEN 1 ELSE 2]

\* The dates of the orders a deployment may see: an order per date, or all
\* orders on the first date.
OrderDates == { OneOrderPerDate, [o \in OrderIds |-> 1] }

createdAt(o) == [date |-> created[o], time |-> o]

\* No throttle telemetry read, no poll interval read, no page fetched and an
\* empty etl_runs table.
ClientIdle ==
    /\ throttle = [status |-> "none", delay |-> 0 - 1]
    /\ poll = [env |-> "none", interval |-> 0 - 1]
    /\ paging = [client |-> "none"]
    /\ etl_runs = << >>
    /\ worker = [p \in Procs |-> [pc |-> "idle", job |-> 0]]

NoOrder == [exists |-> FALSE, updatedAt |-> NullTs, gross |-> 0, refund |-> 0]

\* normalizeOrder(node)
normalizeOrder(o, node) ==
    [shopifyOrderId |-> o,
     orderName |-> o,
     orderCreatedAt |-> createdAt(o),
     orderUpdatedAt |-> node.updatedAt,
     orderDate |-> toDateOnly(createdAt(o)),
     totalGross |-> node.gross,
     totalNet |-> Max2(node.gross - node.refund, 0),
     refundTotal |-> node.refund]

\* The maxUpdatedAt that fetchShopifyOrders folds over the fetched orders.
MaxUpdatedAt(orders) ==
    IF orders = {} THEN NullTs
    ELSE LET stamps == { o.orderUpdatedAt : o \in orders }
         IN CHOOSE x \in stamps : \A y \in stamps : ~StrGreater(y, x)

\* uniqueDates, had it kept the date of one order of the batch only.
uniqueDates_firstOnly(orders) ==
    IF orders = {} THEN {} ELSE { (CHOOSE o \in orders : TRUE).orderDate }

\* uniqueDates(orders)
uniqueDates(orders) == { o.orderDate : o \in orders }

(***************************************************************************)
(* The warehouse tables of the one account, shop and ad account. A table    *)
(* without a conflict target in the code is a bag of rows.                   *)
(***************************************************************************)
NoRaw == [present |-> FALSE, order_updated_at |-> NullTs, gross |-> 0, refund |-> 0]

EmptyDb ==
    [raw |-> [o \in OrderIds |-> NoRaw],
     fact |-> EmptyBag,
     shopify_metrics |-> EmptyBag,
     meta_metrics |-> EmptyBag,
     summary |-> EmptyBag,
     cursor |-> NullTs]

\* INSERT INTO shopify_orders_raw ... ON CONFLICT (integration_id,
\* shopify_order_id) DO UPDATE
upsertShopifyRaw(raw, orders) ==
    [o \in OrderIds |->
        IF \E x \in orders : x.shopifyOrderId = o
        THEN LET x == CHOOSE y \in orders : y.shopifyOrderId = o
             IN [present |-> TRUE, order_updated_at |-> x.orderUpdatedAt,
                 gross |-> x.totalGross, refund |-> x.refundTotal]
        ELSE raw[o]]

FactRow(order) ==
    [order_number |-> order.orderName, order_date |-> order.orderDate,
     total_gross |-> order.totalGross, total_net |-> order.totalNet,
     refund_total |-> order.refundTotal]

\* replaceFactOrders, had it inserted without deleting first.
replaceFactOrders_noDelete(fact, orders) ==
    fact (+) SetToBag({ FactRow(o) : o \in orders })

\* DELETE FROM fact_orders WHERE ... order_number = ANY(names); INSERT ... VALUES
\* (the fetched orders are deduplicated by id, and an order's name is its own)
replaceFactOrders(fact, orders) ==
    LET orderNames == { o.orderName : o \in orders }
        kept == Rows(fact, { r \in DOMAIN fact : r.order_number \notin orderNames })
    IN kept (+) SetToBag({ FactRow(o) : o \in orders })

\* One group of the INSERT ... SELECT ... GROUP BY f.order_date
ShopifyMetricsRow(fact, d) ==
    LET rows == Rows(fact, { r \in DOMAIN fact : r.order_date = d })
        count == Total([r \in DOMAIN rows |-> rows[r]])
        net == Total([r \in DOMAIN rows |-> rows[r] * r.total_net])
    IN [date |-> d,
        orders |-> count,
        revenue_gross |-> Total([r \in DOMAIN rows |-> rows[r] * r.total_gross]),
        revenue_net |-> net,
        refunds |-> Total([r \in DOMAIN rows |-> rows[r] * r.refund_total]),
        aov |-> IF count > 0 THEN Ratio(net, count) ELSE Num(0)]

\* rebuildDailyShopifyMetrics, had it inserted without deleting first.
rebuildDailyShopifyMetrics_noDelete(metrics, fact, dates) ==
    LET grouped == { d \in dates : \E r \in DOMAIN fact : r.order_date = d }
    IN metrics (+) SetToBag({ ShopifyMetricsRow(fact, d) : d \in grouped })

\* DELETE FROM daily_shopify_metrics WHERE shop_id = $1 AND date = ANY(dates);
\* INSERT ... SELECT ... FROM fact_orders ... GROUP BY f.order_date
rebuildDailyShopifyMetrics(metrics, fact, dates) ==
    LET kept == Rows(metrics, { r \in DOMAIN metrics : r.date \notin dates })
        grouped == { d \in dates : \E r \in DOMAIN fact : r.order_date = d }
    IN kept (+) SetToBag({ ShopifyMetricsRow(fact, d) : d \in grouped })

\* summaryMer, had the ELSE branch been 0.
summaryMer_zero(revenue_net, spend) ==
    IF spend > 0 THEN Ratio(revenue_net, spend) ELSE Num(0)

\* CASE WHEN COALESCE(m.spend, 0) > 0 THEN revenue_net / spend ELSE NULL END
summaryMer(revenue_net, spend) ==
    IF spend > 0 THEN Ratio(revenue_net, spend) ELSE NullNum

\* CASE WHEN COALESCE(s.orders, 0) > 0 THEN revenue_net / orders ELSE 0 END
summaryAov(revenue_net, orders) ==
    IF orders > 0 THEN Ratio(revenue_net, orders) ELSE Num(0)

\* One row of the INSERT INTO daily_summary ... SELECT: date d of date_inputs
\* left-joined to the sums of the two metrics tables.
SummaryRow(d, shopify_metrics, meta_metrics) ==
    LET s == Rows(shopify_metrics, { r \in DOMAIN shopify_metrics : r.date = d })
        m == Rows(meta_metrics, { r \in DOMAIN meta_metrics : r.date = d })
        revenue_net == Total([r \in DOMAIN s |-> s[r] * r.revenue_net])
        orders == Total([r \in DOMAIN s |-> s[r] * r.orders])
        spend == Total([r \in DOMAIN m |-> m[r] * r.spend])
    IN [date |-> d,
        revenue_net |-> revenue_net,
        meta_spend |-> spend,
        mer |-> summaryMer(revenue_net, spend),
        orders |-> orders,
        aov |-> summaryAov(revenue_net, orders)]

\* The ads job replaces the ads daily metrics row of each date it touches.
replaceMetaMetrics(metrics, d, spend) ==
    Rows(metrics, { r \in DOMAIN metrics : r.date # d }) (+) SetToBag({ [date |-> d, spend |-> spend] })

\* runShopifyFreshJob, had it stored the fetched maximum as it came.
NextCursor_naive(previousCursor, fetchedMax) == isoStringOrNull(fetchedMax)

\* runShopifyFreshJob, had the closure not compared the next cursor with the
\* previous one.
NextCursor_unguarded(previousCursor, fetchedMax) ==
    isoStringOrNull(maxIsoString(previousCursor, fetchedMax))

\* runShopifyFreshJob: the value the cursorUpdate closure writes with
\* setCursorValue, NullTs when there is no closure or it returns false.
NextCursor(previousCursor, fetchedMax) ==
    LET maxUpdatedAt == maxIsoString(previousCursor, fetchedMax)
        nextCursor == isoStringOrNull(maxUpdatedAt)
    IN IF maxUpdatedAt = NullTs \/ nextCursor = NullTs THEN NullTs
       ELSE IF previousCursor # NullTs /\ ~StrGreater(nextCursor, previousCursor)
            THEN NullTs
            ELSE nextCursor

(***************************************************************************)
(* Handlers. job[p] is the handler process p is running, tx[p] the          *)
(* transaction withTransaction has open for it. A transaction works on its  *)
(* own copy of the tables its job writes (transactions of jobs that write   *)
(* the same tables are run one at a time here) and on the committed rows of *)
(* daily_summary, the table commerce and ads jobs both write: sumDel are    *)
(* the committed rows it has deleted (and keeps locked), sumIns the rows it *)
(* has inserted.                                                            *)
(***************************************************************************)
CommerceJobs == {"shopify_fresh", "shopify_7d_fill"}
AdsJobs == {"meta_fresh"}

NoJob ==
    [pc |-> "idle", kind |-> "none", run |-> 0, previousCursor |-> NullTs,
     orders |-> {}, dates |-> {}, failedAt |-> "none", before |-> EmptyDb,
     disturbed |-> FALSE, cursorChanged |-> FALSE, httpStatus |-> 0]

NoTx == [open |-> FALSE, alone |-> FALSE, copy |-> EmptyDb, targets |-> EmptyBag,
         sumDel |-> EmptyBag, sumIns |-> EmptyBag]

\* BEGIN by p: its transaction is alone if no other is open, and the open
\* ones are alone no longer.
Begin(p, copy) ==
    [q \in Procs |->
        IF q = p
        THEN [NoTx EXCEPT !.open = TRUE, !.copy = copy,
                          !.alone = \A u \in Procs : ~tx[u].open]
        ELSE [tx[q] EXCEPT !.alone = FALSE]]

NoFill == [valid |-> FALSE, orders |-> {}, repeated |-> FALSE]

TxPcs == {"raw", "fact", "metrics", "sumDelete", "sumDeleteApply", "sumInsert",
          "cursor", "commit"}

Active(p) == job[p].pc \notin {"idle", "done"}

\* One iteration of startJobDispatcher up to the call of the handler: the
\* claim transaction commits and runSingleJob resolves the handler.
startJobDispatcher_iteration(p) ==
    /\ pc[p] = "loop" /\ ~Active(p)
    /\ \E r \in RunIds :
          /\ Claimable(r)
          /\ sync_runs[r].job_type \in CommerceJobs \cup AdsJobs
          /\ sync_runs' = [sync_runs EXCEPT ![r] = MarkRunning(@)]
          /\ run' = [run EXCEPT ![p] = r]
          /\ job' = [job EXCEPT ![p] =
                        [NoJob EXCEPT !.kind = sync_runs[r].job_type, !.run = r,
                                      !.pc = IF sync_runs[r].job_type = "shopify_fresh"
                                             THEN "cursor?" ELSE "fetch"]]
    /\ pc' = [pc EXCEPT ![p] = "handler"]
    /\ UNCHANGED << clientVars, workerVars, integrations, now, txRow, didCommit, handlerRuns, sched, calls,
                    source, shopClock, db, tx, summaryUnique, lastFill >>

\* The shop creates or updates an order.
shopWritesOrder(o) ==
    /\ shopClock < MaxClock
    /\ shopClock' = shopClock + 1
    /\ \E a \in Amounts :
          source' = [source EXCEPT ![o] =
                        [exists |-> TRUE, updatedAt |-> RawTs(shopClock + 1),
                         gross |-> a.gross, refund |-> a.refund]]
    /\ UNCHANGED << clientVars, workerVars, integrations, now, sync_runs, pc, run, txRow, didCommit,
                    handlerRuns, sched, calls, db, job, tx, summaryUnique, lastFill >>

\* runShopifyFreshJob: previousCursor = await getCursorValue(pool, ...)
getCursorValue(p) ==
    /\ job[p].pc = "cursor?"
    /\ job' = [job EXCEPT ![p].previousCursor = db.cursor, ![p].pc = "fetch"]
    /\ UNCHANGED << clientVars, workerVars, integrations, now, sync_runs, pc, run, txRow, didCommit,
                    handlerRuns, sched, calls, source, shopClock, db, tx,
                    summaryUnique, lastFill >>

\* fetchShopifyOrders: the orders the source answers the query with, already
\* deduplicated by id. Which of its orders the source returns is the source's
\* choice.
fetchShopifyOrders(p) ==
    /\ job[p].pc = "fetch" /\ job[p].kind \in CommerceJobs
    /\ \E batch \in SUBSET { o \in OrderIds : source[o].exists } :
          job' = [job EXCEPT ![p].orders = { normalizeOrder(o, source[o]) : o \in batch },
                             ![p].pc = "persist"]
    /\ UNCHANGED << clientVars, workerVars, integrations, now, sync_runs, pc, run, txRow, didCommit,
                    handlerRuns, sched, calls, source, shopClock, db, tx,
                    summaryUnique, lastFill >>

\* The request to the source fails: callShopifyGraphql throws on a response
\* that is not ok (credentials rejected: 401, 403; a server error: 500), with
\* the status in the message of the Error.
fetchFails(p) ==
    /\ job[p].pc = "fetch"
    /\ \E status \in {401, 403, 500} :
          job' = [job EXCEPT ![p].pc = "raised", ![p].httpStatus = status]
    /\ UNCHANGED << clientVars, workerVars, integrations, now, sync_runs, pc, run, txRow, didCommit,
                    handlerRuns, sched, calls, source, shopClock, db, tx,
                    summaryUnique, lastFill >>

\* Whether the handler passes a cursorUpdate closure to
\* persistOrdersAndAggregates.
HasCursorUpdate(j) ==
    IF j.kind = "shopify_fresh"
    THEN maxIsoString(j.previousCursor, MaxUpdatedAt(j.orders)) # NullTs
    ELSE isoStringOrNull(MaxUpdatedAt(j.orders)) # NullTs

\* No transaction is written: runShopifySevenDayFillJob with no orders, or
\* persistOrdersAndAggregates with no orders and no cursorUpdate.
persistNothing(p) ==
    /\ job[p].pc = "persist"
    /\ job[p].orders = {}
    /\ job[p].kind = "shopify_7d_fill" \/ ~HasCursorUpdate(job[p])
    /\ job' = [job EXCEPT ![p].pc = "returned"]
    /\ UNCHANGED << clientVars, workerVars, integrations, now, sync_runs, pc, run, txRow, didCommit,
                    handlerRuns, sched, calls, source, shopClock, db, tx,
                    summaryUnique, lastFill >>

\* Another job that writes the same tables has its transaction open.
SameTablesBusy(p, kinds) ==
    \E q \in Procs \ {p} : tx[q].open /\ job[q].kind \in kinds

\* persistOrdersAndAggregates: withTransaction's BEGIN.
persistOrdersAndAggregates(p) ==
    /\ job[p].pc = "persist"
    /\ job[p].orders # {} \/ (job[p].kind = "shopify_fresh" /\ HasCursorUpdate(job[p]))
    /\ ~SameTablesBusy(p, CommerceJobs)
    /\ tx' = Begin(p, db)
    /\ job' = [job EXCEPT ![p].dates = uniqueDates(job[p].orders),
                          ![p].before = db,
                          ![p].pc = IF job[p].orders # {} THEN "raw" ELSE "cursor"]
    /\ UNCHANGED << clientVars, workerVars, integrations, now, sync_runs, pc, run, txRow, didCommit,
                    handlerRuns, sched, calls, source, shopClock, db,
                    summaryUnique, lastFill >>

\* await upsertShopifyRaw(client, integration.integrationId, orders)
persist_upsertShopifyRaw(p) ==
    /\ job[p].pc = "raw"
    /\ tx' = [tx EXCEPT ![p].copy.raw = upsertShopifyRaw(@, job[p].orders)]
    /\ job' = [job EXCEPT ![p].pc = "fact"]
    /\ UNCHANGED << clientVars, workerVars, integrations, now, sync_runs, pc, run, txRow, didCommit,
                    handlerRuns, sched, calls, source, shopClock, db,
                    summaryUnique, lastFill >>

\* await replaceFactOrders(client, integration, orders)
persist_replaceFactOrders(p) ==
    /\ job[p].pc = "fact"
    /\ tx' = [tx EXCEPT ![p].copy.fact = replaceFactOrders(@, job[p].orders)]
    /\ job' = [job EXCEPT ![p].pc = "metrics"]
    /\ UNCHANGED << clientVars, workerVars, integrations, now, sync_runs, pc, run, txRow, didCommit,
                    handlerRuns, sched, calls, source, shopClock, db,
                    summaryUnique, lastFill >>

\* await rebuildDailyShopifyMetrics(client, integration, dates)
persist_rebuildDailyShopifyMetrics(p) ==
    /\ job[p].pc = "metrics"
    /\ tx' = [tx EXCEPT ![p].copy.shopify_metrics =
                 rebuildDailyShopifyMetrics(@, tx[p].copy.fact, job[p].dates)]
    /\ job' = [job EXCEPT ![p].pc = "sumDelete"]
    /\ UNCHANGED << clientVars, workerVars, integrations, now, sync_runs, pc, run, txRow, didCommit,
                    handlerRuns, sched, calls, source, shopClock, db,
                    summaryUnique, lastFill >>

\* The ads job, from its start to the rebuild of the daily summary: it
\* fetches the spend of a date, opens its transaction and replaces the ads
\* daily metrics row of that date.
runMetaFreshJob(p) ==
    /\ job[p].pc = "fetch" /\ job[p].kind \in AdsJobs
    /\ ~SameTablesBusy(p, AdsJobs)
    /\ \E d \in Dates, spend \in Spends :
          /\ tx' = Begin(p, [db EXCEPT !.meta_metrics = replaceMetaMetrics(@, d, spend)])
          /\ job' = [job EXCEPT ![p].dates = {d}, ![p].before = db,
                                ![p].pc = "sumDelete"]
    /\ UNCHANGED << clientVars, workerVars, integrations, now, sync_runs, pc, run, txRow, didCommit,
                    handlerRuns, sched, calls, source, shopClock, db,
                    summaryUnique, lastFill >>

\* rebuildDailySummary: DELETE FROM daily_summary WHERE account_id = $1 AND
\* date = ANY(dates). The statement starts: its snapshot fixes the rows it
\* will delete.
rebuildDailySummary_delete(p) ==
    /\ job[p].pc = "sumDelete"
    /\ tx' = [tx EXCEPT ![p].targets =
                 Rows(db.summary, { r \in DOMAIN db.summary : r.date \in job[p].dates })]
    /\ job' = [job EXCEPT ![p].pc = "sumDeleteApply"]
    /\ UNCHANGED << clientVars, workerVars, integrations, now, sync_runs, pc, run, txRow, didCommit,
                    handlerRuns, sched, calls, source, shopClock, db,
                    summaryUnique, lastFill >>

\* A row the statement is to delete is locked by another open transaction.
DeleteWaits(p) ==
    \E q \in Procs \ {p} :
        tx[q].open /\ DOMAIN tx[q].sumDel \cap DOMAIN tx[p].targets # {}

\* The DELETE ends: it waits for the locks on its rows, then deletes those of
\* them that are still there. Rows committed since its snapshot are not seen.
rebuildDailySummary_deleteApply(p) ==
    /\ job[p].pc = "sumDeleteApply"
    /\ ~DeleteWaits(p)
    /\ tx' = [tx EXCEPT ![p].sumDel =
                 [r \in DOMAIN tx[p].targets \cap DOMAIN db.summary |->
                     Min2(tx[p].targets[r], db.summary[r])],
                        ![p].targets = EmptyBag]
    /\ job' = [job EXCEPT ![p].pc = "sumInsert"]
    /\ UNCHANGED << clientVars, workerVars, integrations, now, sync_runs, pc, run, txRow, didCommit,
                    handlerRuns, sched, calls, source, shopClock, db,
                    summaryUnique, lastFill >>

\* What the statements of p's transaction read from the two metrics tables:
\* its own writes, and what is committed of the table it does not write.
ViewShopifyMetrics(p) ==
    IF job[p].kind \in CommerceJobs THEN tx[p].copy.shopify_metrics ELSE db.shopify_metrics

ViewMetaMetrics(p) ==
    IF job[p].kind \in AdsJobs THEN tx[p].copy.meta_metrics ELSE db.meta_metrics

\* With a unique key on (account_id, date): another open transaction has
\* inserted a row of one of the dates, and the INSERT waits for it to end.
InsertWaits(p) ==
    /\ summaryUnique
    /\ \E q \in Procs \ {p} :
          tx[q].open /\ \E r \in DOMAIN tx[q].sumIns : r.date \in job[p].dates

\* With a unique key on (account_id, date): a committed row of one of the
\* dates is still there, and the INSERT fails.
InsertViolatesKey(p) ==
    /\ summaryUnique
    /\ \E r \in DOMAIN (db.summary (-) tx[p].sumDel) : r.date \in job[p].dates

AfterSummary(p) == IF job[p].kind \in CommerceJobs THEN "cursor" ELSE "commit"

\* rebuildDailySummary: INSERT INTO daily_summary ... SELECT ... FROM
\* date_inputs d LEFT JOIN shopify s ... LEFT JOIN meta m
rebuildDailySummary_insert(p) ==
    /\ job[p].pc = "sumInsert"
    /\ ~InsertWaits(p)
    /\ IF InsertViolatesKey(p)
       THEN /\ tx' = [tx EXCEPT ![p] = NoTx]
            /\ job' = [job EXCEPT ![p].pc = "raised", ![p].failedAt = job[p].pc]
       ELSE /\ tx' = [tx EXCEPT ![p].sumIns =
                         SetToBag({ SummaryRow(d, ViewShopifyMetrics(p), ViewMetaMetrics(p)) :
                                       d \in job[p].dates })]
            /\ job' = [job EXCEPT ![p].pc = AfterSummary(p)]
    /\ UNCHANGED << clientVars, workerVars, integrations, now, sync_runs, pc, run, txRow, didCommit,
                    handlerRuns, sched, calls, source, shopClock, db,
                    summaryUnique, lastFill >>

\* setCursorIfMissing, had it been ON CONFLICT ... DO UPDATE.
setCursorIfMissing_overwrites(cursor, cursorValue) == cursorValue

\* setCursorIfMissing: INSERT ... ON CONFLICT (integration_id, job_type,
\* cursor_key) DO NOTHING
setCursorIfMissing(cursor, cursorValue) ==
    IF cursor = NullTs THEN cursorValue ELSE cursor

\* setCursorValue: INSERT ... ON CONFLICT ... DO UPDATE SET cursor_value =
\* EXCLUDED.cursor_value
setCursorValue(cursor, cursorValue) == cursorValue

\* What the cursorUpdate closure of job j returns on a transaction that sees
\* this cursor: runShopifyFreshJob's returns true when it has written, and
\* runShopifySevenDayFillJob's the (rowCount ?? 0) > 0 of setCursorIfMissing.
cursorUpdateResult(j, cursor) ==
    IF j.kind = "shopify_fresh"
    THEN NextCursor(j.previousCursor, MaxUpdatedAt(j.orders)) # NullTs
    ELSE isoStringOrNull(MaxUpdatedAt(j.orders)) # NullTs /\ cursor = NullTs

\* if (options?.cursorUpdate) { const result = await options.cursorUpdate(client);
\* cursorChanged = Boolean(result) }
persist_cursorUpdate(p) ==
    /\ job[p].pc = "cursor"
    /\ LET j == job[p]
           fetchedMax == MaxUpdatedAt(j.orders)
       IN tx' = [tx EXCEPT ![p].copy.cursor =
                    IF j.kind = "shopify_fresh"
                    THEN IF NextCursor(j.previousCursor, fetchedMax) = NullTs
                         THEN @
                         ELSE setCursorValue(@, NextCursor(j.previousCursor, fetchedMax))
                    ELSE IF isoStringOrNull(fetchedMax) = NullTs
                         THEN @
                         ELSE setCursorIfMissing(@, isoStringOrNull(fetchedMax))]
    /\ job' = [job EXCEPT ![p].pc = "commit",
                          ![p].cursorChanged = cursorUpdateResult(job[p], tx[p].copy.cursor)]
    /\ UNCHANGED << clientVars, workerVars, integrations, now, sync_runs, pc, run, txRow, didCommit,
                    handlerRuns, sched, calls, source, shopClock, db,
                    summaryUnique, lastFill >>

\* The tables after p's transaction has committed.
Committed(p) ==
    LET summary == (db.summary (-) tx[p].sumDel) (+) tx[p].sumIns
    IN IF job[p].kind \in CommerceJobs
       THEN [db EXCEPT !.raw = tx[p].copy.raw, !.fact = tx[p].copy.fact,
                       !.shopify_metrics = tx[p].copy.shopify_metrics,
                       !.cursor = tx[p].copy.cursor, !.summary = summary]
       ELSE [db EXCEPT !.meta_metrics = tx[p].copy.meta_metrics, !.summary = summary]

\* The tables a commerce window fill rebuilds.
Rebuilt(d) == [fact |-> d.fact, shopify_metrics |-> d.shopify_metrics, summary |-> d.summary]

\* History: another job has committed since the transaction of job q began.
Disturb(p, jobs) ==
    [q \in Procs |->
        IF q # p /\ jobs[q].pc \in TxPcs \cup {"raised", "done"}
        THEN [jobs[q] EXCEPT !.disturbed = TRUE]
        ELSE jobs[q]]

\* withTransaction, had its catch block committed what was written.
withTransaction_rollback_commits(p) ==
    /\ job[p].pc \in TxPcs
    /\ db' = Committed(p)
    /\ tx' = [tx EXCEPT ![p] = NoTx]
    /\ job' = [job EXCEPT ![p].pc = "raised", ![p].failedAt = job[p].pc]
    /\ UNCHANGED << clientVars, workerVars, integrations, now, sync_runs, pc, run, txRow, didCommit,
                    handlerRuns, sched, calls, source, shopClock,
                    summaryUnique, lastFill >>

\* withTransaction: a statement of the callback, or the COMMIT, throws:
\* catch -> ROLLBACK, rethrow; finally -> release.
withTransaction_rollback(p) ==
    /\ job[p].pc \in TxPcs
    /\ tx' = [tx EXCEPT ![p] = NoTx]
    /\ job' = [job EXCEPT ![p].pc = "raised", ![p].failedAt = job[p].pc]
    /\ UNCHANGED << clientVars, workerVars, integrations, now, sync_runs, pc, run, txRow, didCommit,
                    handlerRuns, sched, calls, source, shopClock, db,
                    summaryUnique, lastFill >>

\* withTransaction: COMMIT. The handler returns its stats.
withTransaction_commit(p) ==
    /\ job[p].pc = "commit"
    /\ db' = Committed(p)
    /\ tx' = [tx EXCEPT ![p] = NoTx]
    /\ job' = Disturb(p, [job EXCEPT ![p].pc = "returned"])
    /\ lastFill' =
          IF job[p].kind = "shopify_7d_fill" /\ tx[p].alone
          THEN [valid |-> TRUE, orders |-> job[p].orders,
                repeated |-> lastFill.valid /\ lastFill.orders = job[p].orders]
          ELSE NoFill
    /\ UNCHANGED << clientVars, workerVars, integrations, now, sync_runs, pc, run, txRow, didCommit,
                    handlerRuns, sched, calls, source, shopClock, summaryUnique >>

\* runSingleJob: the handler returned: completeRunSuccess.
runSingleJob_return(p) ==
    /\ job[p].pc = "returned"
    /\ sync_runs' = [sync_runs EXCEPT ![run[p]] = completeRunSuccess(@, "stats")]
    /\ job' = [job EXCEPT ![p].pc = "done"]
    /\ pc' = [pc EXCEPT ![p] = "loop"]
    /\ run' = [run EXCEPT ![p] = 0]
    /\ UNCHANGED << clientVars, workerVars, integrations, now, txRow, didCommit, handlerRuns, sched, calls,
                    source, shopClock, db, tx, summaryUnique, lastFill >>

\* runSingleJob: the handler threw: catch -> completeRunError.
runSingleJob_catch(p) ==
    /\ job[p].pc = "raised"
    /\ sync_runs' = [sync_runs EXCEPT ![run[p]] = completeRunError(@, HandlerError)]
    /\ job' = [job EXCEPT ![p].pc = "done"]
    /\ pc' = [pc EXCEPT ![p] = "loop"]
    /\ run' = [run EXCEPT ![p] = 0]
    /\ UNCHANGED << clientVars, workerVars, integrations, now, txRow, didCommit, handlerRuns, sched, calls,
                    source, shopClock, db, tx, summaryUnique, lastFill >>

(***************************************************************************)
(* The worker process (index.ts): main verifies the database connection,   *)
(* then runs startJobDispatcher; the health server answers from the start. *)
(* pc[p] = "start" before the verification, "failed" when it threw, "panic" *)
(* while an exception leaves startJobDispatcher, "exited" when main's catch *)
(* has set the exit code: the dispatcher loop is over, the health server    *)
(* keeps the process alive.                                                 *)
(***************************************************************************)
HealthUrls == {"/", "/health"}

\* health[p]: the last request and its answer; ok200: a 200 was answered before.
NoAnswer == [url |-> "none", status |-> 0, ok200 |-> FALSE]

\* healthStatus, had the server answered 200 from the start.
healthStatus_always200(healthy) == 200

\* const status = isDbHealthy ? 200 : 503
healthStatus(healthy) == IF healthy THEN 200 ELSE 503

\* What the handler called by runSingleJob gave: result.stats when it
\* returned, the error when it threw; failed: completeRunSuccess threw.
NoResult == [kind |-> "none", stats |-> "undefined", error |-> HandlerError, failed |-> FALSE]

\* The scheduler endpoint: the two environment variables CRON_SECRET is read
\* from (NULL = not set), the feature flag, and the last request answered.
NoHeader == [present |-> FALSE, prefix |-> "", rest |-> ""]
NoCron ==
    [metaCronSecret |-> NULL, cronSecret |-> NULL, enabled |-> TRUE,
     last |-> [xCronSecret |-> NoHeader, authorization |-> NoHeader, status |-> 0,
               inserted |-> 0, changed |-> FALSE]]

\* The worker variables of a verified worker and an endpoint never called.
WorkerIdle ==
    /\ isDbHealthy = [p \in Procs |-> TRUE]
    /\ health = [p \in Procs |-> NoAnswer]
    /\ result = [p \in Procs |-> NoResult]
    /\ cron = NoCron

\* The http server's request callback.
startHealthServer_request(p, url) ==
    /\ LET status == IF url \in HealthUrls THEN healthStatus(isDbHealthy[p]) ELSE 404
       IN health' = [health EXCEPT ![p] =
                        [url |-> url, status |-> status,
                         ok200 |-> health[p].ok200 \/ status = 200]]
    /\ UNCHANGED << clientVars, isDbHealthy, result, cron, integrations, now, sync_runs, pc, run,
                    txRow, didCommit, handlerRuns, sched, calls, warehouseVars >>

\* main: await verifyDatabaseConnection(); isDbHealthy = true; startJobDispatcher()
verifyDatabaseConnection(p) ==
    /\ pc[p] = "start"
    /\ isDbHealthy' = [isDbHealthy EXCEPT ![p] = TRUE]
    /\ pc' = [pc EXCEPT ![p] = "loop"]
    /\ UNCHANGED << clientVars, health, result, cron, integrations, now, sync_runs, run, txRow,
                    didCommit, handlerRuns, sched, calls, warehouseVars >>

\* main: verifyDatabaseConnection throws: catch, process.exitCode = 1.
verifyDatabaseConnection_throws(p) ==
    /\ pc[p] = "start"
    /\ pc' = [pc EXCEPT ![p] = "failed"]
    /\ UNCHANGED << clientVars, workerVars, integrations, now, sync_runs, run, txRow,
                    didCommit, handlerRuns, sched, calls, warehouseVars >>

\* startJobDispatcher: `const client = await pool.connect()` is outside the
\* try block: when it throws, the exception leaves the loop.
startJobDispatcher_connectThrows(p) ==
    /\ pc[p] = "loop"
    /\ pc' = [pc EXCEPT ![p] = "panic"]
    /\ UNCHANGED << clientVars, workerVars, integrations, now, sync_runs, run, txRow,
                    didCommit, handlerRuns, sched, calls, warehouseVars >>

\* startJobDispatcher: a statement of the claim transaction throws and the
\* ROLLBACK of the catch block throws too: finally releases the client (the
\* transaction is gone with its connection) and the exception leaves the loop.
startJobDispatcher_rollbackThrows(p) ==
    /\ pc[p] \in {"selected", "updated"}
    /\ txRow' = [txRow EXCEPT ![p] = 0]
    /\ pc' = [pc EXCEPT ![p] = "panic"]
    /\ UNCHANGED << clientVars, workerVars, integrations, now, sync_runs, run,
                    didCommit, handlerRuns, sched, calls, warehouseVars >>

\* main: startJobDispatcher() rejected: catch, process.exitCode = 1. Nothing
\* starts the loop again.
main_catch(p) ==
    /\ pc[p] = "panic"
    /\ pc' = [pc EXCEPT ![p] = "exited"]
    /\ UNCHANGED << clientVars, workerVars, integrations, now, sync_runs, run, txRow,
                    didCommit, handlerRuns, sched, calls, warehouseVars >>

\* runSingleJob: `await handler(run, pool)` returns its result.
handler_returns(p) ==
    /\ pc[p] = "handler"
    /\ \E stats \in {"undefined", "stats"} :
          result' = [result EXCEPT ![p] = [NoResult EXCEPT !.kind = "returned",
                                                           !.stats = stats]]
    /\ pc' = [pc EXCEPT ![p] = "returned"]
    /\ UNCHANGED << clientVars, isDbHealthy, health, cron, integrations, now, sync_runs, run,
                    txRow, didCommit, handlerRuns, sched, calls, warehouseVars >>

\* runSingleJob: `await handler(run, pool)` throws.
handler_throws(p) ==
    /\ pc[p] = "handler"
    /\ \E error \in Errors :
          result' = [result EXCEPT ![p] = [NoResult EXCEPT !.kind = "raised",
                                                           !.error = error]]
    /\ pc' = [pc EXCEPT ![p] = "raised"]
    /\ UNCHANGED << clientVars, isDbHealthy, health, cron, integrations, now, sync_runs, run,
                    txRow, didCommit, handlerRuns, sched, calls, warehouseVars >>

\* runSingleJob: await completeRunSuccess(pool, run.sync_run_id, result.stats)
runSingleJob_completeRunSuccess(p) ==
    /\ pc[p] = "returned"
    /\ ~Locked(run[p])
    /\ sync_runs' = [sync_runs EXCEPT ![run[p]] = completeRunSuccess(@, result[p].stats)]
    /\ pc' = [pc EXCEPT ![p] = "loop"]
    /\ run' = [run EXCEPT ![p] = 0]
    /\ result' = [result EXCEPT ![p] = NoResult]
    /\ UNCHANGED << clientVars, isDbHealthy, health, cron, integrations, now, txRow, didCommit,
                    handlerRuns, sched, calls, warehouseVars >>

\* runSingleJob: completeRunSuccess throws inside the try block: the catch
\* block takes its error for the handler's.
runSingleJob_completeRunSuccessThrows(p) ==
    /\ pc[p] = "returned"
    /\ result' = [result EXCEPT ![p].error = HandlerError, ![p].failed = TRUE]
    /\ pc' = [pc EXCEPT ![p] = "raised"]
    /\ UNCHANGED << clientVars, isDbHealthy, health, cron, integrations, now, sync_runs, run,
                    txRow, didCommit, handlerRuns, sched, calls, warehouseVars >>

\* runSingleJob: catch: await completeRunError(pool, run.sync_run_id, error)
runSingleJob_completeRunError(p) ==
    /\ pc[p] = "raised"
    /\ ~Locked(run[p])
    /\ sync_runs' = [sync_runs EXCEPT ![run[p]] = completeRunError(@, result[p].error)]
    /\ pc' = [pc EXCEPT ![p] = "loop"]
    /\ run' = [run EXCEPT ![p] = 0]
    /\ result' = [result EXCEPT ![p] = NoResult]
    /\ UNCHANGED << clientVars, isDbHealthy, health, cron, integrations, now, txRow, didCommit,
                    handlerRuns, sched, calls, warehouseVars >>

\* runSingleJob: completeRunError throws, in the catch block or for an
\* unknown job type: nothing catches it before main.
runSingleJob_completeRunErrorThrows(p) ==
    /\ \/ pc[p] = "raised"
       \/ pc[p] = "claimed" /\ ~isKnownJobType(sync_runs[run[p]].job_type)
    /\ result' = [result EXCEPT ![p].failed = TRUE]
    /\ pc' = [pc EXCEPT ![p] = "panic"]
    /\ UNCHANGED << clientVars, isDbHealthy, health, cron, integrations, now, sync_runs, run,
                    txRow, didCommit, handlerRuns, sched, calls, warehouseVars >>

(***************************************************************************)
(* Spec: the dispatcher processes, the scheduler and the connect flow.      *)
(***************************************************************************)
Init ==
    /\ integrations = InitialIntegrations
    /\ now = 0
    /\ sync_runs = << >>
    /\ pc = [p \in Procs |-> "loop"]
    /\ run = [p \in Procs |-> 0]
    /\ txRow = [p \in Procs |-> 0]
    /\ didCommit = [p \in Procs |-> FALSE]
    /\ handlerRuns = [r \in 1..MaxRuns |-> 0]
    /\ sched = [s \in Scheds |-> Idle]
    /\ calls = [first |-> NoCall, second |-> NoCall]
    /\ source = [o \in OrderIds |-> NoOrder]
    /\ shopClock = 0
    /\ db = EmptyDb
    /\ job = [p \in Procs |-> NoJob]
    /\ tx = [p \in Procs |-> NoTx]
    /\ summaryUnique = TRUE
    /\ lastFill = NoFill
    /\ created = OneOrderPerDate
    /\ ClientIdle
    /\ WorkerIdle

Next ==
    \/ \E p \in Procs : claimSelect(p)
    \/ \E p \in Procs : claimUpdate(p)
    \/ \E p \in Procs : claimCommit(p)
    \/ \E p \in Procs : claimFail(p)
    \/ \E p \in Procs : wake(p)
    \/ \E p \in Procs : runSingleJob(p)
    \/ \E p \in Procs : handlerReturn(p)
    \/ \E p \in Procs : handlerRaise(p)
    \/ \E i \in IntegrationIds : enqueueMetaInitialFill(i)
    \/ enqueueMetaFreshRuns

Spec == Init /\ [][Next]_vars

(***************************************************************************)
(* SpecSched: scheduler requests that may overlap, the clock, and the       *)
(* dispatcher run by run.                                                   *)
(***************************************************************************)
NextSched ==
    \/ \E s \in Scheds : schedStart(s)
    \/ \E s \in Scheds : schedFinish(s)
    \/ startJobDispatcher_claim
    \/ runSingleJob_end
    \/ Tick

SpecSched == Init /\ [][NextSched]_vars

(***************************************************************************)
(* SpecWarehouse: one dispatcher works through a queue of commerce and ads  *)
(* runs, one run after the other, while the shop writes orders.             *)
(* SpecConcurrent: every dispatcher process works through a queue of        *)
(* commerce fresh runs and ads runs.                                        *)
(***************************************************************************)
WarehouseRun(kind) == NewRun(IF kind \in AdsJobs THEN 1 ELSE 3, kind, "system", 0)

\* The queues of MaxJobs runs of the given job types.
Queues(kinds) ==
    { [k \in 1..MaxJobs |-> WarehouseRun(f[k])] : f \in [1..MaxJobs -> kinds] }

InitQueue(kinds) ==
    /\ integrations = InitialIntegrations
    /\ now = 0
    /\ sync_runs \in Queues(kinds)
    /\ pc = [p \in Procs |-> "loop"]
    /\ run = [p \in Procs |-> 0]
    /\ txRow = [p \in Procs |-> 0]
    /\ didCommit = [p \in Procs |-> FALSE]
    /\ handlerRuns = [r \in 1..MaxRuns |-> 0]
    /\ sched = [s \in Scheds |-> Idle]
    /\ calls = [first |-> NoCall, second |-> NoCall]
    /\ source = [o \in OrderIds |-> NoOrder]
    /\ shopClock = 0
    /\ db = EmptyDb
    /\ job = [p \in Procs |-> NoJob]
    /\ tx = [p \in Procs |-> NoTx]
    /\ summaryUnique \in BOOLEAN
    /\ lastFill = NoFill
    /\ ClientIdle
    /\ WorkerIdle

Handler(p) ==
    \/ getCursorValue(p)
    \/ fetchShopifyOrders(p)
    \/ fetchFails(p)
    \/ persistNothing(p)
    \/ persistOrdersAndAggregates(p)
    \/ persist_upsertShopifyRaw(p)
    \/ persist_replaceFactOrders(p)
    \/ persist_rebuildDailyShopifyMetrics(p)
    \/ runMetaFreshJob(p)
    \/ rebuildDailySummary_delete(p)
    \/ rebuildDailySummary_deleteApply(p)
    \/ rebuildDailySummary_insert(p)
    \/ persist_cursorUpdate(p)
    \/ withTransaction_rollback(p)
    \/ withTransaction_commit(p)
    \/ runSingleJob_return(p)
    \/ runSingleJob_catch(p)

FirstProc == CHOOSE p \in Procs : \A q \in Procs : p <= q

NextWarehouse ==
    \/ startJobDispatcher_iteration(FirstProc)
    \/ \E o \in OrderIds : shopWritesOrder(o)
    \/ Handler(FirstProc)

InitWarehouse == InitQueue(CommerceJobs \cup AdsJobs) /\ created \in OrderDates

SpecWarehouse == InitWarehouse /\ [][NextWarehouse]_vars

NextConcurrent ==
    \/ \E p \in Procs : startJobDispatcher_iteration(p)
    \/ \E o \in OrderIds : shopWritesOrder(o)
    \/ \E p \in Procs : Handler(p)

InitConcurrent == InitQueue({"shopify_fresh"} \cup AdsJobs) /\ created = OneOrderPerDate

SpecConcurrent == InitConcurrent /\ [][NextConcurrent]_vars

(***************************************************************************)
(* Properties of the commerce handlers and the warehouse writer.            *)
(***************************************************************************)

\* C3: in SpecWarehouse the runs are executed one after the other. When a
\* commerce fresh run that found a stored cursor has returned, the stored
\* cursor is not earlier than the one it found, and it is the one it found
\* if no fetched order was updated later than that.
C3_MonotonicCursor ==
    \A p \in Procs :
        (job[p].kind = "shopify_fresh" /\ job[p].pc = "returned"
            /\ job[p].previousCursor # NullTs)
        => /\ db.cursor # NullTs
           /\ db.cursor.t >= job[p].previousCursor.t
           /\ (\A o \in job[p].orders : o.orderUpdatedAt.t <= job[p].previousCursor.t)
                  => db.cursor = job[p].previousCursor

\* C3 witness: a fresh run has returned whose fetched orders were none of
\* them updated after the cursor it found, one of them in the very second of
\* that cursor.
C3_Witness ==
    \E p \in Procs :
        /\ job[p].kind = "shopify_fresh" /\ job[p].pc = "returned"
        /\ job[p].previousCursor # NullTs
        /\ \A o \in job[p].orders : o.orderUpdatedAt.t <= job[p].previousCursor.t
        /\ \E o \in job[p].orders : o.orderUpdatedAt.t = job[p].previousCursor.t
        /\ \E o \in job[p].orders : o.orderUpdatedAt.t < job[p].previousCursor.t

\* C4 (as stated): with commerce fresh runs executed concurrently, the stored
\* cursor never decreases.
\* Violated: a run that read the cursor before another run advanced it writes
\* its own, lower, next cursor over the stored one: setCursorValue overwrites
\* whatever is stored.
C4_CursorNeverDecreases ==
    [][db.cursor # NullTs => (db'.cursor # NullTs /\ db'.cursor.t >= db.cursor.t)]_vars

\* C7: when a commerce window fill commits right after another window fill
\* that fetched the same orders (no other transaction open or committed in
\* between), its commit leaves the fact rows, the daily commerce metrics rows
\* and the daily summary rows as they were.
C7_IdempotentFill ==
    [][\A p \in Procs :
          (/\ job[p].kind = "shopify_7d_fill"
           /\ job[p].pc = "commit" /\ job'[p].pc = "returned"
           /\ tx[p].alone
           /\ lastFill.valid /\ lastFill.orders = job[p].orders)
          => Rebuilt(db') = Rebuilt(db)]_vars

\* C7 witness: a window fill of two orders has committed right after a window
\* fill of the same two orders.
C7_Witness ==
    /\ lastFill.repeated
    /\ Cardinality(lastFill.orders) = 2
    /\ db.fact # EmptyBag /\ db.shopify_metrics # EmptyBag /\ db.summary # EmptyBag

C9_SummaryLaw ==
    \A r \in DOMAIN db.summary :
        /\ r.mer = IF r.meta_spend > 0 THEN Ratio(r.revenue_net, r.meta_spend) ELSE NullNum
        /\ r.aov = IF r.orders > 0 THEN Ratio(r.revenue_net, r.orders) ELSE Num(0)

\* C9 witness: after two successful runs the summary holds a row with orders
\* and ads spend.
C9_Witness ==
    /\ \A r \in RunIds : sync_runs[r].status = "success"
    /\ \E r \in DOMAIN db.summary : r.meta_spend > 0 /\ r.orders > 0 /\ r.revenue_net > 0

\* C10 (as stated): once the transactions of a commerce run and an ads run
\* that rebuilt the same date have committed, the daily summary of that date
\* is a single row whose revenue_net, orders and ads spend are those of the
\* committed commerce and ads daily metrics.
\* Violated: each of two overlapping transactions deletes the summary rows
\* its snapshot shows and inserts a row computed from the metrics it sees,
\* which do not include the other's uncommitted rows; with no unique key on
\* (account_id, date) both rows are committed.
C10_SummaryOfCommittedMetrics ==
    (\A p \in Procs : ~tx[p].open)
    => \A d \in Dates :
          LET rows == Rows(db.summary, { r \in DOMAIN db.summary : r.date = d })
              s == SummaryRow(d, db.shopify_metrics, db.meta_metrics)
          IN /\ BagCardinality(rows) <= 1
             /\ \A r \in DOMAIN rows :
                   /\ r.revenue_net = s.revenue_net
                   /\ r.orders = s.orders
                   /\ r.meta_spend = s.meta_spend

(***************************************************************************)
(* Properties of the dispatcher (Spec).                                    *)
(***************************************************************************)

StatusTransitions ==
    { <<"queued", "running">>, <<"running", "success">>, <<"running", "error">> }

\* C1 (as stated): the status of every sync run changes only along
\* queued -> running, running -> success, running -> error; a run in success
\* or error never changes status again.
\* Violated: when the COMMIT of the claim transaction fails, `run` is already
\* assigned, the handler runs for a run that is still queued (or that another
\* dispatcher has since claimed and ended), and the completion UPDATE, which
\* does not look at the current status, moves it queued -> success or
\* success -> error.
C1_StatusTransitionsOnly ==
    [][\A r \in RunIds :
          sync_runs'[r].status # sync_runs[r].status
              => <<sync_runs[r].status, sync_runs'[r].status>> \in StatusTransitions]_vars

\* C2 (as stated): with one queued eligible run and K dispatchers, exactly one
\* process runs its handler: no second handler is ever started for that run.
\* Violated: a dispatcher whose COMMIT failed runs the handler although its
\* claim was rolled back, and a second dispatcher then claims the same run.
C2_OneHandlerPerRun ==
    Len(sync_runs) = 1 => handlerRuns[1] <= 1

(***************************************************************************)
(* Properties of the scheduler endpoint (SpecSched).                        *)
(***************************************************************************)

\* The last two completed calls ran one after the other, less than N minutes
\* apart, and no run reached a terminal status in between.
TwoCallsWithinInterval ==
    /\ calls.first.at # NoTime
    /\ calls.first.seq /\ calls.second.seq
    /\ calls.second.at - calls.first.at < META_FRESH_INTERVAL_MINUTES
    /\ ~calls.first.term

\* The call inserted exactly one meta_fresh run with trigger auto for every
\* ads integration that is connected or active, and nothing else.
InsertedOnePerCandidate(call) ==
    /\ \A r \in call.rows :
          /\ sync_runs[r].integration_id \in candidate
          /\ sync_runs[r].job_type = "meta_fresh"
          /\ sync_runs[r].trigger = "auto"
    /\ \A i \in candidate :
          Cardinality({ r \in call.rows : sync_runs[r].integration_id = i }) = 1

\* C5 (as stated): of two calls made one after the other less than N minutes
\* apart with no run ending in between, the first inserts one queued fresh run
\* for every connected or active integration and the second inserts none.
\* Violated: a fresh run that has been queued for N minutes is still inside
\* the window of a call at minute N (which inserts nothing) and outside the
\* window of a call at minute N + 1 (which inserts a row).
C5_DedupAsStated ==
    TwoCallsWithinInterval
        => InsertedOnePerCandidate(calls.first) /\ calls.second.rows = {}

\* C5 (amended): the same, for a first call made when no fresh run was queued
\* or running.
C5_Dedup ==
    (TwoCallsWithinInterval /\ calls.first.clean)
        => InsertedOnePerCandidate(calls.first) /\ calls.second.rows = {}

\* C5 witness: two calls a minute apart, the first made with no fresh run in
\* flight, and the run the first call inserted has been claimed since.
C5_Witness ==
    /\ TwoCallsWithinInterval /\ calls.first.clean
    /\ calls.second.at > calls.first.at
    /\ calls.first.rows # {}
    /\ \E r \in calls.first.rows : sync_runs[r].status = "running"

\* The fresh runs of integration i that the scheduler inserted and that are
\* queued or running.
ScheduledInFlight(i) ==
    { r \in RunIds :
        /\ sync_runs[r].integration_id = i
        /\ sync_runs[r].job_type = "meta_fresh"
        /\ sync_runs[r].trigger = "auto"
        /\ sync_runs[r].status \in {"queued", "running"} }

\* C6 (as stated): every integration has at most one scheduler-inserted fresh
\* run that is queued or running.
\* Violated: two requests whose statements overlap both find no fresh run in
\* their snapshots and both insert one.
C6_AtMostOneFreshInFlight ==
    \A i \in IntegrationIds : Cardinality(ScheduledInFlight(i)) <= 1

(***************************************************************************)
(* SpecWorker: the dispatcher loops of verified workers with the failures   *)
(* of their statements, on a queue that holds runs of a registered and of   *)
(* an unregistered job type.                                                *)
(* SpecWorkerFair: one such worker, which takes its next step as long as it *)
(* has one (a failure is never bound to happen).                            *)
(* SpecClaim: the dispatchers on a queue with rate-limited runs, and the    *)
(* clock.                                                                   *)
(***************************************************************************)
\* Verified workers at the top of their loops and a queue of MaxRuns of the
\* given rows.
InitDispatcher(rows) ==
    /\ integrations = InitialIntegrations
    /\ now = 0
    /\ sync_runs \in [1..MaxRuns -> rows]
    /\ pc = [p \in Procs |-> "loop"]
    /\ run = [p \in Procs |-> 0]
    /\ txRow = [p \in Procs |-> 0]
    /\ didCommit = [p \in Procs |-> FALSE]
    /\ handlerRuns = [r \in 1..MaxRuns |-> 0]
    /\ sched = [s \in Scheds |-> Idle]
    /\ calls = [first |-> NoCall, second |-> NoCall]
    /\ source = [o \in OrderIds |-> NoOrder]
    /\ shopClock = 0
    /\ db = EmptyDb
    /\ job = [p \in Procs |-> NoJob]
    /\ tx = [p \in Procs |-> NoTx]
    /\ summaryUnique = TRUE
    /\ lastFill = NoFill
    /\ created = OneOrderPerDate
    /\ ClientIdle
    /\ WorkerIdle

\* The steps of the dispatcher loop of process p in which no statement fails.
DispatcherStep(p) ==
    \/ claimSelect(p)
    \/ claimUpdate(p)
    \/ claimCommit(p)
    \/ wake(p)
    \/ runSingleJob(p)
    \/ handler_returns(p)
    \/ handler_throws(p)
    \/ runSingleJob_completeRunSuccess(p)
    \/ runSingleJob_completeRunError(p)

\* The steps of worker process p that are its program running on.
WorkerStep(p) ==
    \/ DispatcherStep(p)
    \/ main_catch(p)

\* The steps in which a statement of p fails.
WorkerFailure(p) ==
    \/ claimFail(p)
    \/ startJobDispatcher_connectThrows(p)
    \/ startJobDispatcher_rollbackThrows(p)
    \/ runSingleJob_completeRunSuccessThrows(p)
    \/ runSingleJob_completeRunErrorThrows(p)

\* A queue of runs of a registered and of an unregistered job type.
InitWorker ==
    InitDispatcher({ NewRun(1, "meta_fresh", "auto", 0), NewRun(1, "ga4_fresh", "system", 0) })

NextWorker ==
    \/ \E p \in Procs : WorkerStep(p)
    \/ \E p \in Procs : WorkerFailure(p)

SpecWorker == InitWorker /\ [][NextWorker]_vars

NextWorkerOne ==
    \/ WorkerStep(FirstProc)
    \/ WorkerFailure(FirstProc)

SpecWorkerFair ==
    InitWorker /\ [][NextWorkerOne]_vars /\ WF_vars(WorkerStep(FirstProc))

\* A queue of runs that are not rate limited and of runs rate limited until
\* the first and until the second tick of the clock.
InitClaim ==
    InitDispatcher({ [NewRun(1, "meta_fresh", "auto", 0) EXCEPT
                          !.rate_limited = l, !.rate_limit_reset_at = a] :
                       <<l, a>> \in { <<NULL, NoTime>>, <<"true", Minutes(1)>>,
                                        <<"true", Minutes(2)>> } })

NextClaim ==
    \/ \E p \in Procs : claimSelect(p)
    \/ \E p \in Procs : claimUpdate(p)
    \/ \E p \in Procs : claimCommit(p)
    \/ \E p \in Procs : claimFail(p)
    \/ \E p \in Procs : wake(p)
    \/ \E p \in Procs : runSingleJob(p)
    \/ \E p \in Procs : handlerReturn(p)
    \/ \E p \in Procs : handlerRaise(p)
    \/ Tick

SpecClaim == InitClaim /\ [][NextClaim]_vars

(***************************************************************************)
(* Properties of the worker's dispatcher loop (SpecWorker, SpecWorkerFair). *)
(***************************************************************************)

\* enqueueMetaInitialFill once the model's MaxRuns rows are in use: the new
\* row takes the place of a row in a terminal status that no dispatcher holds
\* (claimNextRun reads queued rows only, so the row given up is one it can no
\* longer see).
enqueueMetaInitialFill_reuse(i, r) ==
    /\ integrations[i].type = "meta" /\ integrations[i].status = "connected"
    /\ r \in RunIds /\ Len(sync_runs) = MaxRuns
    /\ sync_runs[r].status \in {"success", "error"}
    /\ \A p \in Procs : run[p] # r /\ txRow[p] # r
    /\ sync_runs' = [sync_runs EXCEPT ![r] = NewRun(i, "meta_7d_fill", "user_click", now)]
    /\ handlerRuns' = [handlerRuns EXCEPT ![r] = 0]
    /\ UNCHANGED << clientVars, workerVars, integrations, now, pc, run, txRow, didCommit,
                    sched, calls,
                    warehouseVars >>

NextQueue ==
    \/ DispatcherStep(FirstProc)
    \/ \E i \in IntegrationIds : \E r \in 1..MaxRuns : enqueueMetaInitialFill_reuse(i, r)

\* One dispatcher that keeps iterating, with no statement failing and every
\* handler ending, while the connect flow keeps queueing runs.
SpecQueue == InitWorker /\ [][NextQueue]_vars /\ WF_vars(DispatcherStep(FirstProc))

\* C11 (as stated): the error_message that completeRunError stores for a
\* handler's error is at most 1000 characters long, and ends with the
\* truncation mark when the error's message was longer.
\* Violated: truncateErrorMessage keeps the first 1000 characters and appends
\* the mark, which makes 1001.
C11_BoundedErrorMessage ==
    [][\A p \in Procs :
          (pc[p] = "raised" /\ pc'[p] = "loop")
          => LET stored == sync_runs'[run[p]].error_message
                 original == errorText(result[p].error)
             IN /\ ~stored.null
                /\ stored.len <= MAX_LENGTH
                /\ original.len > MAX_LENGTH => stored.ellipsis]_vars

\* C12 (as stated): a run of a job type with no registered handler that has
\* been ended is in status error with error_code unknown_job_type, and no
\* handler was run for it.
\* Violated: runSingleJob ends it with completeRunError, which writes
\* COALESCE(error_code, 'worker_error') over the NULL the claim has set.
C12_UnknownJobType ==
    \A r \in RunIds :
        (~isKnownJobType(sync_runs[r].job_type) /\ sync_runs[r].status \in {"success", "error"})
        => /\ sync_runs[r].status = "error"
           /\ sync_runs[r].error_code = "unknown_job_type"
           /\ handlerRuns[r] = 0

\* C13 (as stated): a claimed run whose handler has returned comes to be in
\* success with finished_at set and the returned stats; one whose handler has
\* thrown comes to be in error with finished_at set and error_code
\* worker_error.
\* Violated: when the UPDATE of completeRunSuccess fails the run is ended as
\* error, and when the UPDATE of completeRunError fails the exception leaves
\* the loop and the run stays running.
C13_TerminatesAsStated ==
    \A p \in Procs : \A r \in 1..MaxRuns :
        /\ \A stats \in {"undefined", "stats"} :
              (pc[p] = "returned" /\ run[p] = r /\ didCommit[p] /\ result[p].stats = stats)
                  ~> /\ r \in RunIds
                     /\ sync_runs[r].status = "success"
                     /\ sync_runs[r].finished_at = NOW
                     /\ sync_runs[r].stats = IF stats = "undefined" THEN "{}" ELSE stats
        /\ (pc[p] = "raised" /\ run[p] = r /\ didCommit[p] /\ result[p].kind = "raised")
              ~> /\ r \in RunIds
                 /\ sync_runs[r].status = "error"
                 /\ sync_runs[r].finished_at = NOW
                 /\ sync_runs[r].error_code = "worker_error"

\* C14 (as stated): after a handler's error or an exception in the loop the
\* dispatcher process comes to run its claim SELECT again.
\* Violated: an exception that leaves startJobDispatcher (pool.connect, a
\* ROLLBACK or completeRunError throwing) ends in main's catch block, which
\* sets the exit code and starts nothing again.
C14_LoopGoesOn ==
    \A p \in Procs : (pc[p] \in {"raised", "panic"}) ~> (pc[p] \in {"selected", "sleep"})

\* C15 (as stated): a run that is queued and eligible is claimed at some later
\* time, whatever is enqueued in the meantime.
\* Violated: the SELECT of claimNextRun has LIMIT 1 and no ORDER BY, so which
\* of the eligible rows it returns is not determined; it may return a newer
\* row every time.
C15_NoStarvation ==
    \A r \in 1..MaxRuns :
        (r \in RunIds /\ Claimable(r)) ~> (r \in RunIds /\ sync_runs[r].status = "running")

\* C16: a run goes to status running only in a step before which it was
\* queued and either not rate limited or past its rate_limit_reset_at.
C16_ClaimOnlyEligible ==
    [][\A r \in RunIds :
          (sync_runs[r].status # "running" /\ sync_runs'[r].status = "running")
          => /\ sync_runs[r].status = "queued"
             /\ \/ sync_runs[r].rate_limited # "true"
                \/ /\ sync_runs[r].rate_limit_reset_at # NoTime
                   /\ sync_runs[r].rate_limit_reset_at <= now]_vars

\* C16 witness: a rate-limited run has been claimed after its reset time
\* while another, whose reset time is still ahead, stays queued and a
\* dispatcher that found nothing to claim sleeps.
C16_Witness ==
    /\ \E r \in RunIds :
          /\ sync_runs[r].status = "running" /\ sync_runs[r].rate_limited = "true"
          /\ sync_runs[r].rate_limit_reset_at <= now
    /\ \E r \in RunIds :
          /\ sync_runs[r].status = "queued" /\ sync_runs[r].rate_limited = "true"
          /\ sync_runs[r].rate_limit_reset_at > now
    /\ \E p \in Procs : pc[p] = "sleep" /\ run[p] = 0

\* C17: a window fill that returns has written the cursor only if there was
\* none, and then the cursor is the latest updated_at of the orders it fetched
\* and it reports cursorInitialized = true; with a cursor there, the cursor is
\* as it was and it reports false. No other step of a window fill changes the
\* cursor.
C17_CursorInitialisedOnlyIfMissing ==
    [][\A p \in Procs :
          (job[p].kind = "shopify_7d_fill" /\ job'[p].kind = "shopify_7d_fill")
          => IF job[p].pc # "returned" /\ job'[p].pc = "returned"
             THEN LET times == { o.orderUpdatedAt.t : o \in job[p].orders }
                      latest == CHOOSE t \in times : \A u \in times : u <= t
                  IN /\ job'[p].cursorChanged <=> (db'.cursor # db.cursor)
                     /\ db.cursor # NullTs => db'.cursor = db.cursor
                     /\ (db.cursor = NullTs /\ job[p].orders # {})
                            => (db'.cursor = IsoTs(latest) /\ job'[p].cursorChanged)
             ELSE db'.cursor = db.cursor]_vars

\* C17 witness: after a first window fill has ended, a second one has
\* returned that found a cursor and fetched an order updated later than it,
\* and has left the cursor alone.
C17_Witness ==
    \E p \in Procs :
        /\ job[p].kind = "shopify_7d_fill" /\ job[p].pc = "returned"
        /\ job[p].before.cursor # NullTs
        /\ db.cursor = job[p].before.cursor
        /\ \E o \in job[p].orders : o.orderUpdatedAt.t > db.cursor.t
        /\ ~job[p].cursorChanged
        /\ \E r \in RunIds :
              /\ r # job[p].run
              /\ sync_runs[r].job_type = "shopify_7d_fill" /\ sync_runs[r].status = "success"

\* C20 (as stated): when runSingleJob has ended a commerce run whose request
\* to the source was answered 401 or 403, the run is in error with error_code
\* auth_error and the run's integration has status error.
\* Violated: the Error of callShopifyGraphql reaches completeRunError like any
\* other, which writes worker_error, and nothing writes the integration.
C20_AuthError ==
    [][\A p \in Procs :
          (/\ job[p].pc = "raised" /\ job'[p].pc = "done"
           /\ job[p].kind \in CommerceJobs /\ job[p].httpStatus \in {401, 403})
          => LET row == sync_runs'[job[p].run]
             IN /\ row.status = "error"
                /\ row.error_code = "auth_error"
                /\ integrations'[row.integration_id].status = "error"]_vars

(***************************************************************************)
(* SpecHealth: worker processes from their start: main starts the health   *)
(* server, verifies the database connection and enters the dispatcher      *)
(* loop, which an exception may end; requests reach the health server at    *)
(* any time.                                                                *)
(***************************************************************************)
InitHealth ==
    /\ integrations = InitialIntegrations
    /\ now = 0
    /\ sync_runs = << >>
    /\ pc = [p \in Procs |-> "start"]
    /\ run = [p \in Procs |-> 0]
    /\ txRow = [p \in Procs |-> 0]
    /\ didCommit = [p \in Procs |-> FALSE]
    /\ handlerRuns = [r \in 1..MaxRuns |-> 0]
    /\ sched = [s \in Scheds |-> Idle]
    /\ calls = [first |-> NoCall, second |-> NoCall]
    /\ source = [o \in OrderIds |-> NoOrder]
    /\ shopClock = 0
    /\ db = EmptyDb
    /\ job = [p \in Procs |-> NoJob]
    /\ tx = [p \in Procs |-> NoTx]
    /\ summaryUnique = TRUE
    /\ lastFill = NoFill
    /\ created = OneOrderPerDate
    /\ ClientIdle
    /\ isDbHealthy = [p \in Procs |-> FALSE]
    /\ health = [p \in Procs |-> NoAnswer]
    /\ result = [p \in Procs |-> NoResult]
    /\ cron = NoCron

NextHealth ==
    \/ \E p \in Procs : \E url \in HealthUrls \cup {"/metrics"} : startHealthServer_request(p, url)
    \/ \E p \in Procs : verifyDatabaseConnection(p)
    \/ \E p \in Procs : verifyDatabaseConnection_throws(p)
    \/ \E p \in Procs : startJobDispatcher_connectThrows(p)
    \/ \E p \in Procs : main_catch(p)

SpecHealth == InitHealth /\ [][NextHealth]_vars

\* C18: a request for / or /health is answered 503 when the worker's database
\* verification has not succeeded and 200 when it has, and never 503 once
\* such a request has been answered 200.
C18_HealthStatus ==
    [][\A p \in Procs : \A url \in HealthUrls :
          startHealthServer_request(p, url)
          => /\ health'[p].status = IF pc[p] \in {"start", "failed"} THEN 503 ELSE 200
             /\ health[p].ok200 => health'[p].status # 503]_vars

\* C18 witness: one worker has answered 200 on /health after its dispatcher
\* loop has ended, having answered 200 before, and another, whose
\* verification failed, has answered 503.
C18_Witness ==
    \E p, q \in Procs :
        /\ pc[p] = "exited" /\ health[p] = [url |-> "/health", status |-> 200, ok200 |-> TRUE]
        /\ pc[q] = "failed" /\ health[q] = [url |-> "/", status |-> 503, ok200 |-> FALSE]

(***************************************************************************)
(* SpecCron: the scheduler endpoint with its authorization. A header value *)
(* is kept as the prefix that toLowerCase().startsWith("bearer ") finds    *)
(* and slice(7) cuts off, and the rest; the empty header value has neither. *)
(* The environment is drawn at the start: META_CRON_SECRET unset, empty or  *)
(* set, CRON_SECRET unset or set, the feature flag on or off.               *)
(***************************************************************************)
Secret == "s3cret"

Headers ==
    { NoHeader, [present |-> TRUE, prefix |-> "", rest |-> ""] }
      \cup { [present |-> TRUE, prefix |-> x, rest |-> v] :
                x \in {"", "Bearer ", "bearer "}, v \in {Secret, "wrong"} }

\* const CRON_SECRET = process.env.META_CRON_SECRET ?? process.env.CRON_SECRET ?? null
CRON_SECRET ==
    IF cron.metaCronSecret # NULL THEN cron.metaCronSecret
    ELSE IF cron.cronSecret # NULL THEN cron.cronSecret ELSE NULL

\* !value of a string or null
Falsy(value) == value = NULL \/ value = ""

\* isAuthorized(request)
isAuthorized(xCronSecret, authorization) ==
    IF Falsy(CRON_SECRET) THEN TRUE
    ELSE LET header == IF xCronSecret.present THEN xCronSecret ELSE authorization
         IN IF ~header.present \/ (header.prefix = "" /\ header.rest = "") THEN FALSE
            ELSE header.rest = CRON_SECRET

\* handleSchedulerRequest(request), served alone from start to end.
handleSchedulerRequest(xCronSecret, authorization) ==
    /\ IF ~isAuthorized(xCronSecret, authorization)
       THEN /\ sync_runs' = sync_runs
            /\ cron' = [cron EXCEPT !.last =
                          [xCronSecret |-> xCronSecret, authorization |-> authorization,
                           status |-> 401, inserted |-> 0, changed |-> FALSE]]
       ELSE IF ~cron.enabled
       THEN /\ sync_runs' = sync_runs
            /\ cron' = [cron EXCEPT !.last =
                          [xCronSecret |-> xCronSecret, authorization |-> authorization,
                           status |-> 202, inserted |-> 0, changed |-> FALSE]]
       ELSE /\ Len(sync_runs) + Cardinality(ToInsert(now)) <= MaxRuns
            /\ sync_runs' = AppendRuns(sync_runs, ToInsert(now), now)
            /\ cron' = [cron EXCEPT !.last =
                          [xCronSecret |-> xCronSecret, authorization |-> authorization,
                           status |-> 202, inserted |-> Cardinality(ToInsert(now)),
                           changed |-> ToInsert(now) # {}]]
    /\ UNCHANGED << clientVars, isDbHealthy, health, result, integrations, now, pc, run, txRow,
                    didCommit, handlerRuns, sched, calls, warehouseVars >>

InitCron ==
    /\ integrations = InitialIntegrations
    /\ now = 0
    /\ sync_runs = << >>
    /\ pc = [p \in Procs |-> "loop"]
    /\ run = [p \in Procs |-> 0]
    /\ txRow = [p \in Procs |-> 0]
    /\ didCommit = [p \in Procs |-> FALSE]
    /\ handlerRuns = [r \in 1..MaxRuns |-> 0]
    /\ sched = [s \in Scheds |-> Idle]
    /\ calls = [first |-> NoCall, second |-> NoCall]
    /\ source = [o \in OrderIds |-> NoOrder]
    /\ shopClock = 0
    /\ db = EmptyDb
    /\ job = [p \in Procs |-> NoJob]
    /\ tx = [p \in Procs |-> NoTx]
    /\ summaryUnique = TRUE
    /\ lastFill = NoFill
    /\ created = OneOrderPerDate
    /\ ClientIdle
    /\ isDbHealthy = [p \in Procs |-> TRUE]
    /\ health = [p \in Procs |-> NoAnswer]
    /\ result = [p \in Procs |-> NoResult]
    /\ cron \in { [NoCron EXCEPT !.metaCronSecret = m, !.cronSecret = c, !.enabled = e] :
                     m \in {NULL, "", Secret}, c \in {NULL, Secret}, e \in BOOLEAN }

NextCron ==
    \/ \E xCronSecret, authorization \in Headers :
          handleSchedulerRequest(xCronSecret, authorization)
    \/ startJobDispatcher_claim
    \/ runSingleJob_end

SpecCron == InitCron /\ [][NextCron]_vars

\* C19 (as stated): with a secret set in the environment, a request that
\* carries the secret in neither of the two headers is answered 401 and
\* leaves sync_runs as it is; with none set no request is answered 401. (The
\* claim asks for more, the secret in one of two forms; a request counts here
\* as presenting the secret if a header carries it in any form.)
\* Violated: an empty META_CRON_SECRET hides the secret set in CRON_SECRET and
\* opens the endpoint.
C19_OnlyWithSecret ==
    [][\A xCronSecret, authorization \in Headers :
          handleSchedulerRequest(xCronSecret, authorization)
          => LET configured == ~Falsy(cron.metaCronSecret) \/ ~Falsy(cron.cronSecret)
                 presented == xCronSecret.rest = Secret \/ authorization.rest = Secret
             IN IF configured
                THEN presented \/ (cron'.last.status = 401 /\ sync_runs' = sync_runs)
                ELSE cron'.last.status # 401]_vars

\* C27 (as stated): when a statement of the claim transaction fails, the
\* iteration does not go on to runSingleJob with the run, and the run is left
\* as it was; a dispatcher enters runSingleJob only with a claim that has
\* committed.
\* Violated: claimNextRun has returned the row when COMMIT throws; the catch
\* rolls back, `run` stays set and runSingleJob is called with it.
C27_HandlerOnlyAfterCommit ==
    [][\A p \in Procs :
          /\ (pc[p] \in {"selected", "updated"} /\ pc'[p] # pc[p] /\ ~didCommit'[p])
                => (pc'[p] # "claimed" /\ sync_runs' = sync_runs)
          /\ (pc[p] = "claimed" /\ pc'[p] # "claimed") => didCommit[p]]_vars

(***************************************************************************)
(* SpecSweeper: the dispatchers with no statement failing, and the external *)
(* sweeper of the specification, which marks a run left in running as       *)
(* abandoned.                                                               *)
(***************************************************************************)

\* The sweeper marks run r, found in running past the threshold, as error
\* with code abandoned. A run is that long in running while its handler is
\* at work.
sweeper_markAbandoned(r) ==
    /\ r \in RunIds /\ sync_runs[r].status = "running" /\ ~Locked(r)
    /\ \A p \in Procs : run[p] = r => pc[p] = "handler"
    /\ sync_runs' = [sync_runs EXCEPT ![r].status = "error", ![r].finished_at = NOW,
                                      ![r].error_code = "abandoned"]
    /\ UNCHANGED << clientVars, workerVars, integrations, now, pc, run, txRow, didCommit, handlerRuns,
                    sched, calls, warehouseVars >>

NextSweeper ==
    \/ \E p \in Procs : DispatcherStep(p)
    \/ \E r \in 1..MaxRuns : sweeper_markAbandoned(r)

SpecSweeper == InitWorker /\ [][NextSweeper]_vars

\* C28 (as stated): a run that is in error with code abandoned is not changed
\* by any later step.
\* Violated: completeRunSuccess and completeRunError update the row by its id
\* alone, whatever its status: the first moves it to success, the second
\* replaces its error_message.
C28_AbandonedStaysAbandoned ==
    [][\A r \in RunIds :
          (sync_runs[r].status = "error" /\ sync_runs[r].error_code = "abandoned")
          => /\ sync_runs'[r].status = "error"
             /\ sync_runs'[r].error_code = "abandoned"
             /\ sync_runs'[r].error_message = sync_runs[r].error_message]_vars

(***************************************************************************)
(* SpecRateLimit: scheduler requests served one at a time, the dispatcher   *)
(* run by run, the clock, and ads runs that end rate limited as the         *)
(* specification of the ads handler has it.                                 *)
(***************************************************************************)

\* The ads fresh handler has used up its retries on 429: the run is marked
\* error with error_code rate_limited, rate_limited = true and
\* rate_limit_reset_at = now + 5 min.
runMetaFreshJob_rateLimited ==
    /\ \E r \in RunIds :
          /\ sync_runs[r].status = "running" /\ sync_runs[r].job_type = "meta_fresh"
          /\ sync_runs' = [sync_runs EXCEPT ![r].status = "error",
                                            ![r].finished_at = NOW,
                                            ![r].error_code = "rate_limited",
                                            ![r].rate_limited = "true",
                                            ![r].rate_limit_reset_at = now + 5]
    /\ calls' = [calls EXCEPT !.second.term = TRUE]
    /\ UNCHANGED << clientVars, workerVars, integrations, now, pc, run, txRow, didCommit, handlerRuns,
                    sched, warehouseVars >>

NextRateLimit ==
    \/ enqueueMetaFreshRuns
    \/ startJobDispatcher_claim
    \/ runSingleJob_end
    \/ runMetaFreshJob_rateLimited
    \/ Tick

SpecRateLimit == Init /\ [][NextRateLimit]_vars

\* C21 (as stated): a step that inserts runs inserts none for an integration
\* that has a fresh run in error with rate_limited = true whose
\* rate_limit_reset_at is still ahead.
\* Violated: the NOT EXISTS subquery of enqueueMetaFreshRuns looks at queued
\* and running runs only; rate_limited and rate_limit_reset_at are not read.
C21_NoEnqueueWhileRateLimited ==
    [][\A i \in IntegrationIds :
          (\E r \in RunIds :
              /\ sync_runs[r].integration_id = i /\ sync_runs[r].job_type = "meta_fresh"
              /\ sync_runs[r].status = "error" /\ sync_runs[r].rate_limited = "true"
              /\ sync_runs[r].rate_limit_reset_at > now)
          => ~ \E n \in (Len(sync_runs) + 1)..Len(sync_runs') :
                  sync_runs'[n].integration_id = i /\ sync_runs'[n].job_type = "meta_fresh"]_vars

\* C22: once the fetch of a commerce fresh run has returned no orders, no
\* step up to the end of the run changes the raw, fact, daily metrics, daily
\* summary or cursor tables, and the run reports cursorAdvanced = false.
C22_EmptyFetchWritesNothing ==
    [][\A p \in Procs :
          (/\ job[p].kind = "shopify_fresh" /\ job[p].orders = {}
           /\ job[p].pc \in {"persist", "returned"} \cup TxPcs)
          => (db' = db /\ ~job'[p].cursorChanged)]_vars

\* C22 witness: a fresh run that found a stored cursor and a warehouse with
\* rows has fetched no orders, has been through its transaction and has
\* returned.
C22_Witness ==
    \E p \in Procs :
        /\ job[p].kind = "shopify_fresh" /\ job[p].pc = "returned" /\ job[p].orders = {}
        /\ job[p].previousCursor # NullTs /\ db.cursor = job[p].previousCursor
        /\ job[p].before = db /\ db.fact # EmptyBag
        /\ ~job[p].cursorChanged

\* C23: when the transaction of a commerce run that fetched orders commits,
\* the dates it reports as datesAffected are exactly the dates of the
\* created_at of its orders; the daily metrics and daily summary rows of
\* every other date are as they were, and each of those dates has the single
\* daily metrics row and the single daily summary row computed from what is
\* stored after the commit.
C23_DateBucketPurity ==
    [][\A p \in Procs :
          (/\ job[p].kind \in CommerceJobs /\ job[p].orders # {}
           /\ job[p].pc = "commit" /\ job'[p].pc = "returned")
          => LET batch == { created[o.shopifyOrderId] : o \in job[p].orders }
                 At(B, d) == Rows(B, { r \in DOMAIN B : r.date = d })
             IN /\ job'[p].dates = batch
                /\ \A d \in Dates \ batch :
                      /\ At(db'.shopify_metrics, d) = At(db.shopify_metrics, d)
                      /\ At(db'.summary, d) = At(db.summary, d)
                /\ \A d \in batch :
                      /\ At(db'.shopify_metrics, d)
                            = SetToBag({ ShopifyMetricsRow(db'.fact, d) })
                      /\ At(db'.summary, d)
                            = SetToBag({ SummaryRow(d, db'.shopify_metrics,
                                                    db'.meta_metrics) })]_vars

\* C23 witness: a commerce run whose orders were all created on date 2 has
\* committed while the daily metrics and the daily summary held a row of
\* date 1, and another has committed orders of both dates.
C23_Witness ==
    \E p \in Procs :
        /\ job[p].kind \in CommerceJobs /\ job[p].pc = "returned"
        /\ job[p].orders # {} /\ job[p].failedAt = "none"
        /\ \/ /\ job[p].dates = {2}
              /\ \E r \in DOMAIN db.shopify_metrics : r.date = 1
              /\ \E r \in DOMAIN db.summary : r.date = 1
           \/ /\ job[p].dates = {1, 2}
              /\ handlerRuns[2] = 1

\* C29: whenever no warehouse transaction is open, every date with fact rows
\* has exactly one daily commerce metrics row, whose orders is the number of
\* those fact rows and whose revenue_gross, revenue_net and refunds are the
\* sums over them, and a date without fact rows has no daily metrics row.
C29_MetricsAreFactAggregates ==
    (\A p \in Procs : ~tx[p].open)
    => \A d \in Dates :
          LET rows == Rows(db.fact, { r \in DOMAIN db.fact : r.order_date = d })
              m == Rows(db.shopify_metrics, { r \in DOMAIN db.shopify_metrics : r.date = d })
          IN IF DOMAIN rows = {}
             THEN DOMAIN m = {}
             ELSE /\ BagCardinality(m) = 1
                  /\ \A r \in DOMAIN m :
                        /\ r.orders = BagCardinality(rows)
                        /\ r.revenue_gross = Total([f \in DOMAIN rows |-> rows[f] * f.total_gross])
                        /\ r.revenue_net = Total([f \in DOMAIN rows |-> rows[f] * f.total_net])
                        /\ r.refunds = Total([f \in DOMAIN rows |-> rows[f] * f.refund_total])

\* C29 witness: after a successful window fill and a successful fresh run,
\* the second of which carried one of the two orders of a date, the daily
\* metrics row of that date counts both orders.
C29_Witness ==
    /\ \A r \in RunIds : sync_runs[r].status = "success"
    /\ { sync_runs[r].job_type : r \in RunIds } = CommerceJobs
    /\ \E p \in Procs : job[p].pc = "done" /\ Cardinality(job[p].orders) = 1
    /\ \E r \in DOMAIN db.shopify_metrics : r.orders = 2 /\ r.refunds > 0

(***************************************************************************)
(* The commerce client's throttle: computeThrottleDelayMs, applied to the   *)
(* throttleStatus of a GraphQL answer.                                      *)
(***************************************************************************)
\* requestedQueryCost is optional in ShopifyThrottleStatus.
NoCost == 0 - 1

\* The telemetry of an answer without extensions.cost.throttleStatus.
NoThrottleStatus ==
    [present |-> FALSE, currentlyAvailable |-> 0, maximumAvailable |-> 0,
     restoreRate |-> 0, requestedQueryCost |-> NoCost]

ThrottleStatuses ==
    { NoThrottleStatus } \cup
    [present : {TRUE},
     currentlyAvailable : {0, 10, 100, 200, 250, 400},
     maximumAvailable : {1000, 2000},
     restoreRate : {0, 50, 100},
     requestedQueryCost : {NoCost, 0, 10, 110, 252, 460}]

\* Math.ceil(a / b) for a >= 0, b > 0
CeilDiv(a, b) == (a + b - 1) \div b

\* computeThrottleDelayMs(status): currentlyAvailable > maximumAvailable * 0.2
\* is currentlyAvailable * 5 > maximumAvailable, and
\* Math.ceil((deficit / restoreRate) * 1000) is the ceiling of
\* deficit * 1000 / restoreRate (the doubles of ThrottleStatuses are exact).
computeThrottleDelayMs(status) ==
    IF ~status.present THEN 0
    ELSE IF status.currentlyAvailable * 5 > status.maximumAvailable THEN 0
    ELSE LET requested == IF status.requestedQueryCost = NoCost
                          THEN 0 ELSE status.requestedQueryCost
             deficit == requested - status.currentlyAvailable
             restoreRate == IF status.restoreRate > 0 THEN status.restoreRate ELSE 50
         IN IF requested = 0 \/ requested <= status.currentlyAvailable THEN 0
            ELSE IF deficit <= 0 THEN 0
            ELSE CeilDiv(deficit * 1000, restoreRate) + 200

\* fetchShopifyOrders: const throttleDelay = computeThrottleDelayMs(throttleStatus)
fetchShopifyOrders_throttleDelay ==
    /\ throttle.delay = NoCost
    /\ throttle' = [throttle EXCEPT !.delay = computeThrottleDelayMs(throttle.status)]
    /\ UNCHANGED << integrations, now, sync_runs, pc, run, txRow, didCommit, handlerRuns,
                    sched, calls, warehouseVars, workerVars,
                    created, poll, paging, etl_runs, worker >>

\* Everything but the client variables, as in a deployment where nothing runs.
InitIdle ==
    /\ integrations = InitialIntegrations
    /\ now = 0
    /\ sync_runs = << >>
    /\ pc = [p \in Procs |-> "loop"]
    /\ run = [p \in Procs |-> 0]
    /\ txRow = [p \in Procs |-> 0]
    /\ didCommit = [p \in Procs |-> FALSE]
    /\ handlerRuns = [r \in 1..MaxRuns |-> 0]
    /\ sched = [s \in Scheds |-> Idle]
    /\ calls = [first |-> NoCall, second |-> NoCall]
    /\ source = [o \in OrderIds |-> NoOrder]
    /\ shopClock = 0
    /\ db = EmptyDb
    /\ job = [p \in Procs |-> NoJob]
    /\ tx = [p \in Procs |-> NoTx]
    /\ summaryUnique = TRUE
    /\ lastFill = NoFill
    /\ WorkerIdle
    /\ created = OneOrderPerDate

InitThrottle ==
    /\ InitIdle
    /\ throttle \in [status : ThrottleStatuses, delay : {NoCost}]
    /\ poll = [env |-> "none", interval |-> 0 - 1]
    /\ paging = [client |-> "none"]
    /\ etl_runs = << >>
    /\ worker = [p \in Procs |-> [pc |-> "idle", job |-> 0]]

NextThrottle == fetchShopifyOrders_throttleDelay

SpecThrottle == InitThrottle /\ [][NextThrottle]_vars

\* C24 (as stated): the delay computed from a telemetry record is 0 when the
\* telemetry is missing, 0 when currentlyAvailable is more than 20% of
\* maximumAvailable, 0 when requestedQueryCost <= currentlyAvailable, and
\* otherwise (for a positive restoreRate) the whole seconds
\* ceil((requestedQueryCost - currentlyAvailable) / restoreRate), in ms, plus
\* 200 ms.
\* Violated: the code rounds up the milliseconds, not the seconds; a deficit
\* of 10 at restoreRate 50 gives 400 ms where the statement gives 1200 ms.
C24_ThrottleDelay ==
    throttle.delay # NoCost
    => LET st == throttle.status
           requested == IF st.requestedQueryCost = NoCost THEN 0 ELSE st.requestedQueryCost
       IN IF ~st.present THEN throttle.delay = 0
          ELSE IF st.currentlyAvailable * 5 > st.maximumAvailable THEN throttle.delay = 0
          ELSE IF requested <= st.currentlyAvailable THEN throttle.delay = 0
          ELSE st.restoreRate > 0
               => throttle.delay
                     = CeilDiv(requested - st.currentlyAvailable, st.restoreRate) * 1000 + 200

(***************************************************************************)
(* The dispatcher's poll interval: getPollInterval, applied to the value of *)
(* JOB_POLL_INTERVAL_MS. A value is a string of at most MaxEnvLen           *)
(* characters of EnvChars.                                                  *)
(***************************************************************************)
DEFAULT_POLL_INTERVAL_MS == 5000

MaxEnvLen == 4
EnvChars == {"0", "1", "5", "-", "a"}
Digits == [c \in {"0", "1", "5"} |-> IF c = "0" THEN 0 ELSE IF c = "1" THEN 1 ELSE 5]

\* process.env.JOB_POLL_INTERVAL_MS: undefined, or a string
EnvValues ==
    { [set |-> FALSE, value |-> << >>] } \cup
    [set : {TRUE}, value : UNION { [1..n -> EnvChars] : n \in 0..MaxEnvLen }]

RECURSIVE DecimalValue(_)
DecimalValue(str) ==
    IF str = << >> THEN 0
    ELSE 10 * DecimalValue(SubSeq(str, 1, Len(str) - 1)) + Digits[str[Len(str)]]

\* Number(value) on a string of EnvChars: 0 for the empty string, the
\* decimal value of an optionally signed string of digits, NaN otherwise.
Number(value) ==
    LET IsDigits(str) == str # << >> /\ \A k \in 1..Len(str) : str[k] \in DOMAIN Digits
    IN IF value = << >> THEN [finite |-> TRUE, value |-> 0]
       ELSE IF IsDigits(value) THEN [finite |-> TRUE, value |-> DecimalValue(value)]
       ELSE IF Head(value) = "-" /\ IsDigits(Tail(value))
            THEN [finite |-> TRUE, value |-> 0 - DecimalValue(Tail(value))]
       ELSE [finite |-> FALSE, value |-> 0]

\* getPollInterval()
getPollInterval(env) ==
    IF ~env.set \/ env.value = << >> THEN DEFAULT_POLL_INTERVAL_MS
    ELSE LET parsed == Number(env.value)
         IN IF parsed.finite /\ parsed.value > 0 THEN parsed.value
            ELSE DEFAULT_POLL_INTERVAL_MS

\* startJobDispatcher: const pollIntervalMs = getPollInterval()
startJobDispatcher_getPollInterval ==
    /\ poll.interval = 0 - 1
    /\ poll' = [poll EXCEPT !.interval = getPollInterval(poll.env)]
    /\ UNCHANGED << integrations, now, sync_runs, pc, run, txRow, didCommit, handlerRuns,
                    sched, calls, warehouseVars, workerVars,
                    created, throttle, paging, etl_runs, worker >>

InitPoll ==
    /\ InitIdle
    /\ poll \in [env : EnvValues, interval : {0 - 1}]
    /\ throttle = [status |-> "none", delay |-> 0 - 1]
    /\ paging = [client |-> "none"]
    /\ etl_runs = << >>
    /\ worker = [p \in Procs |-> [pc |-> "idle", job |-> 0]]

NextPoll == startJobDispatcher_getPollInterval

SpecPoll == InitPoll /\ [][NextPoll]_vars

\* C26 (as stated): whatever the value of the poll-interval setting, the
\* interval the dispatcher sleeps is at least 1000 ms, and it is 5000 ms when
\* the setting is absent or is not a positive number.
\* Violated: getPollInterval returns every positive finite number as it is;
\* JOB_POLL_INTERVAL_MS = "1" gives 1 ms.
C26_PollIntervalFloor ==
    poll.interval # 0 - 1
    => /\ poll.interval >= 1000
       /\ (\/ ~poll.env.set
           \/ ~Number(poll.env.value).finite
           \/ Number(poll.env.value).value <= 0) => poll.interval = DEFAULT_POLL_INTERVAL_MS

(***************************************************************************)
(* Paginated order fetches: the loop of fetchShopifyOrders and the loop of  *)
(* ShopifyClient.getOrdersIncremental against a server of MaxPages pages.   *)
(* The request after cursor c (0: no cursor) is answered with page c + 1;   *)
(* the endCursor of page k, when the server sends one, is k.                *)
(***************************************************************************)
MaxPages == 3

\* What the server sends as pageInfo of each page. A server with a next
\* page after its last page sends no cursor to it.
Servers ==
    { sv \in [1..MaxPages -> [hasNextPage : BOOLEAN, endCursor : BOOLEAN]] :
         sv[MaxPages].hasNextPage => ~sv[MaxPages].endCursor }

\* let cursor = null; let hasNextPage = true; let apiCalls = 0 (pageInfo: the
\* pageInfo of the last answer, none so far)
NewFetch(client, sv) ==
    [client |-> client, server |-> sv, pc |-> "loop", hasNextPage |-> TRUE,
     cursor |-> 0, pages |-> {}, apiCalls |-> 0, pageInfo |-> [hasNextPage |-> FALSE, endCursor |-> FALSE]]

\* The client sends the request of its next page: callShopifyGraphql in
\* fetchShopifyOrders (variables.cursor = cursor when there is one),
\* this.query(query, { ...variables, after: cursor }) in getOrdersIncremental.
sendPageRequest ==
    /\ paging.client \in {"fetchShopifyOrders", "getOrdersIncremental"}
    /\ paging.pc = "loop" /\ paging.hasNextPage
    /\ paging' = [paging EXCEPT !.pc = "await"]
    /\ UNCHANGED << integrations, now, sync_runs, pc, run, txRow, didCommit, handlerRuns,
                    sched, calls, warehouseVars, workerVars,
                    created, throttle, poll, etl_runs, worker >>

\* fetchShopifyOrders: the rest of an iteration of while (hasNextPage). The
\* orders of the page are pushed (pages: the pages fetched so far), then
\* hasNextPage = pageInfo.hasNextPage; cursor = hasNextPage ? endCursor : null;
\* if (!hasNextPage) break; if (!cursor) { console.warn(...); break; }
fetchShopifyOrders_page ==
    /\ paging.client = "fetchShopifyOrders" /\ paging.pc = "await"
    /\ LET pageInfo == paging.server[paging.cursor + 1]
           cursor == IF pageInfo.hasNextPage /\ pageInfo.endCursor
                     THEN paging.cursor + 1 ELSE 0
       IN paging' = [paging EXCEPT
                        !.apiCalls = @ + 1,
                        !.pages = @ \cup {paging.cursor + 1},
                        !.pageInfo = pageInfo,
                        !.hasNextPage = pageInfo.hasNextPage,
                        !.cursor = cursor,
                        !.pc = IF ~pageInfo.hasNextPage \/ cursor = 0
                               THEN "done" ELSE "loop"]
    /\ UNCHANGED << integrations, now, sync_runs, pc, run, txRow, didCommit, handlerRuns,
                    sched, calls, warehouseVars, workerVars,
                    created, throttle, poll, etl_runs, worker >>

\* ShopifyClient.getOrdersIncremental: the rest of an iteration of
\* while (hasNextPage): allOrders.push(...orders);
\* hasNextPage = pageInfo.hasNextPage; cursor = pageInfo.endCursor || undefined
getOrdersIncremental_page ==
    /\ paging.client = "getOrdersIncremental" /\ paging.pc = "await"
    /\ LET pageInfo == paging.server[paging.cursor + 1]
       IN paging' = [paging EXCEPT
                        !.pages = @ \cup {paging.cursor + 1},
                        !.pageInfo = pageInfo,
                        !.hasNextPage = pageInfo.hasNextPage,
                        !.cursor = IF pageInfo.endCursor THEN paging.cursor + 1 ELSE 0,
                        !.pc = IF pageInfo.hasNextPage THEN "loop" ELSE "done"]
    /\ UNCHANGED << integrations, now, sync_runs, pc, run, txRow, didCommit, handlerRuns,
                    sched, calls, warehouseVars, workerVars,
                    created, throttle, poll, etl_runs, worker >>

InitPaging ==
    /\ InitIdle
    /\ paging \in { NewFetch(client, sv) :
                      client \in {"fetchShopifyOrders", "getOrdersIncremental"},
                      sv \in Servers }
    /\ throttle = [status |-> "none", delay |-> 0 - 1]
    /\ poll = [env |-> "none", interval |-> 0 - 1]
    /\ etl_runs = << >>
    /\ worker = [p \in Procs |-> [pc |-> "idle", job |-> 0]]

NextPaging ==
    \/ sendPageRequest
    \/ fetchShopifyOrders_page
    \/ getOrdersIncremental_page

\* The client's loop runs on while it is in its loop.
SpecPaging == InitPaging /\ [][NextPaging]_vars /\ WF_vars(NextPaging)

\* C25 (as stated): once the server has answered hasNextPage = true with no
\* endCursor, the fetch ends, whichever of the two clients runs it.
\* Violated: getOrdersIncremental turns the missing endCursor into
\* cursor = undefined and goes on while hasNextPage, so it requests the first
\* page again, for ever.
C25_PaginationTerminates ==
    (paging.pageInfo.hasNextPage /\ ~paging.pageInfo.endCursor) ~> (paging.pc = "done")

(***************************************************************************)
(* The legacy Worker class (worker.ts): processNextJob and executeJob on    *)
(* the etl_runs table. The pool client runs each statement of              *)
(* processNextJob in its own transaction: no BEGIN precedes the SELECT, so  *)
(* the row lock of FOR UPDATE SKIP LOCKED ends with the SELECT.             *)
(***************************************************************************)
NumEtlRuns == 3

\* processNextJob: SELECT * FROM etl_runs WHERE status = 'QUEUED'
\* ORDER BY created_at ASC LIMIT 1 FOR UPDATE SKIP LOCKED; no row: return.
processNextJob_select(p) ==
    /\ worker[p].pc = "idle"
    /\ \E r \in DOMAIN etl_runs :
          /\ etl_runs[r].status = "QUEUED"
          /\ \A q \in DOMAIN etl_runs : etl_runs[q].status = "QUEUED" => r <= q
          /\ worker' = [worker EXCEPT ![p] = [pc |-> "selected", job |-> r]]
    /\ UNCHANGED << integrations, now, sync_runs, pc, run, txRow, didCommit, handlerRuns,
                    sched, calls, warehouseVars, workerVars,
                    created, throttle, poll, paging, etl_runs >>

\* processNextJob: UPDATE etl_runs SET status = 'IN_PROGRESS', started_at =
\* now() WHERE id = $2; await this.executeJob(job, client)
processNextJob_update(p) ==
    /\ worker[p].pc = "selected"
    /\ etl_runs' = [etl_runs EXCEPT ![worker[p].job].status = "IN_PROGRESS",
                                    ![worker[p].job].executions = @ + 1]
    /\ worker' = [worker EXCEPT ![p].pc = "executeJob"]
    /\ UNCHANGED << integrations, now, sync_runs, pc, run, txRow, didCommit, handlerRuns,
                    sched, calls, warehouseVars, workerVars,
                    created, throttle, poll, paging >>

\* executeJob: the ETL processor returns (UPDATE ... SET status = 'SUCCEEDED'
\* WHERE id = $3) or throws (UPDATE ... SET status = 'FAILED' WHERE id = $3).
executeJob(p) ==
    /\ worker[p].pc = "executeJob"
    /\ \E status \in {"SUCCEEDED", "FAILED"} :
          etl_runs' = [etl_runs EXCEPT ![worker[p].job].status = status]
    /\ worker' = [worker EXCEPT ![p] = [pc |-> "idle", job |-> 0]]
    /\ UNCHANGED << integrations, now, sync_runs, pc, run, txRow, didCommit, handlerRuns,
                    sched, calls, warehouseVars, workerVars,
                    created, throttle, poll, paging >>

\* The etl_runs table holds queued and finished rows; executions counts the
\* calls of executeJob for a row.
InitLegacy ==
    /\ InitIdle
    /\ etl_runs \in [1..NumEtlRuns -> [status : {"QUEUED", "SUCCEEDED"}, executions : {0}]]
    /\ worker = [p \in Procs |-> [pc |-> "idle", job |-> 0]]
    /\ throttle = [status |-> "none", delay |-> 0 - 1]
    /\ poll = [env |-> "none", interval |-> 0 - 1]
    /\ paging = [client |-> "none"]

NextLegacy ==
    \/ \E p \in Procs : processNextJob_select(p)
    \/ \E p \in Procs : processNextJob_update(p)
    \/ \E p \in Procs : executeJob(p)

SpecLegacy == InitLegacy /\ [][NextLegacy]_vars

\* C30 (as stated): with several Worker processes polling, executeJob is
\* called at most once for each etl_runs row, and a row a process has moved
\* to IN_PROGRESS is not selected by another.
\* Violated: the lock of the SELECT ends with the SELECT, so a second process
\* selects the row, still QUEUED, before the first has updated it; both
\* update it and both call executeJob.
C30_AtMostOneExecution ==
    \A r \in DOMAIN etl_runs : etl_runs[r].executions <= 1

====
